---- MODULE Spec2Model ----
(***************************************************************************)
(* cpdup: recursive filesystem replication (DoCopy / RemoveRecur) over a   *)
(* source tree and a destination filesystem, with the hardlink table, the  *)
(* per-directory ignore list, the counters and the process exit code.      *)
(*                                                                         *)
(* Paths are sequences of names, names are strings.  A filesystem is a     *)
(* record [names, inodes]: names maps a path to an inode number, inodes    *)
(* maps an inode number to its attributes.  A name that maps to inode 0 is *)
(* listed by readdir but fails lstat (an entry that vanished).             *)
(***************************************************************************)
EXTENDS Integers, Sequences, FiniteSets, TLC

VARIABLES
    opt,        \* the option globals set by main's argument loop
    sfs,        \* source filesystem (never written)
    dfs,        \* destination filesystem
    dumask,     \* umask of the destination host process
    stack,      \* call stack of DoCopy / RemoveRecur frames, top = last
    hltable,    \* hardlink table: sequence of struct hlink, newest first
    cnt,        \* the six Count* globals
    phase,      \* "main" | "run" | "returned" | "exited"
    ret,        \* value returned by the top-level DoCopy (i in main)
    exitcode,   \* argument of exit()
    faults,     \* number of system calls the environment has made fail
    run,        \* 1 for the first process run, 2.. for the reruns
    prev,       \* what the process found when it started: the previous run's
                \* return value (-1 if none) and the destination tree
    errs,       \* history: create, open, read, write, link, unlink and rename
                \* calls that have failed in this run
    answer,     \* the first character YesNo read in the last step, "" if the
                \* step did not prompt
    wcmp,       \* one call of WildCmp: its two arguments and its result
    alst,       \* the List of one directory pass of DoCopy and its last AddList call
    proc,       \* struct proc of a threaded process: p_flag, p_nthreads, its lwps
    mplock      \* the lwp that holds the MP lock, 0 if none

\* the variables of the copy run
copy == <<opt, sfs, dfs, dumask, stack, hltable, cnt, phase, ret, exitcode,
          faults, run, prev, errs, answer>>

\* the variables outside the copy run
aside == <<wcmp, alst, proc, mplock>>

vars == <<copy, aside>>

-----------------------------------------------------------------------------
(* Bounds of the model *)

\* system calls the environment may make fail in one execution
MaxFaults == 1

\* process runs over the same pair of trees (the rerun checks idempotence)
MaxRuns == 2

-----------------------------------------------------------------------------
(* Program constants *)

\* the 0700 of "st1.st_mode | 0700"
S_IRWXU == 448

\* the 0600 the temp file is opened with
TmpPerm == 384

\* strlen(dst): the components of the destination root path
DstBaseLen == 1

\* the tag of ignore-file entries in AddList (n == 1)
TagIgnore == 1

\* the tag DoCopy gives names of the source listing
TagSource == 0

\* the tag DoCopy gives names of the destination listing
TagDest == 3

\* (dev_t)-1, the "no device yet" argument of the top-level call
NoDev == -1

\* two st_dev values with bit 31 set (0x80000001, 0x80000002); a dev_t is held
\* here as the int that (int) casts it to
HiDevA == -2147483647
HiDevB == -2147483646

\* bytes of one block of file data (st_blocks * 512)
BlockBytes == 512

\* mtime given to objects the run creates ("now", later than any source mtime)
Now == 9

-----------------------------------------------------------------------------
(* Bit operations on permission bits *)

RECURSIVE BitOr(_, _)
BitOr(a, b) ==
    IF a = 0 THEN b
    ELSE IF b = 0 THEN a
    ELSE (IF a % 2 = 1 \/ b % 2 = 1 THEN 1 ELSE 0) + 2 * BitOr(a \div 2, b \div 2)

RECURSIVE BitAndNot(_, _)
BitAndNot(a, m) ==
    IF a = 0 THEN 0
    ELSE (IF a % 2 = 1 /\ m % 2 = 0 THEN 1 ELSE 0) + 2 * BitAndNot(a \div 2, m \div 2)

-----------------------------------------------------------------------------
(* Paths *)

Parent(p) == SubSeq(p, 1, Len(p) - 1)

\* mprintf("%s/%s", path, name)
Child(p, n) == Append(p, n)

\* variant of TmpPath: the copy is written to dpath itself
TmpPathInPlace(p) == p

\* mprintf("%s.tmp", dpath)
TmpPath(p) == [p EXCEPT ![Len(p)] = @ \o ".tmp"]

BaseName(p) == p[Len(p)]

\* the order in which readdir lists the names of a directory (or its reverse)
NameOrder ==
    <<".cpignore", "a", "b", "b.o", "c", "d", "e", "f", "g", "k", "k.o", "n", "q", "r",
      "x", "y", "z">>

IsUnder(q, p) == Len(q) >= Len(p) /\ SubSeq(q, 1, Len(p)) = p

-----------------------------------------------------------------------------
(* Filesystem: the POSIX calls behind the hc_* host operations *)

Exists(fs, p) == p \in DOMAIN fs.names /\ fs.names[p] # 0

Node(fs, p) == fs.inodes[fs.names[p]]

KindOf(fs, p) == IF Exists(fs, p) THEN Node(fs, p).kind ELSE "none"

\* names readdir returns for directory p ("." and ".." left out)
Entries(fs, p) ==
    {q[Len(q)] : q \in {x \in DOMAIN fs.names : Len(x) = Len(p) + 1 /\ Parent(x) = p}}

HasChildren(fs, p) == Entries(fs, p) # {}

ParentOk(fs, p) == Len(p) = 1 \/ KindOf(fs, Parent(p)) = "dir"

\* an immutable (schg/uchg) object: nonzero st_flags
Immutable(fs, p) == Exists(fs, p) /\ Node(fs, p).flags # 0

NLinks(fs, i) == Cardinality({q \in DOMAIN fs.names : fs.names[q] = i})

NoStat ==
    [valid |-> FALSE, ino |-> 0, kind |-> "none", perm |-> 0, uid |-> 0, gid |-> 0,
     mtime |-> 0, flags |-> 0, dev |-> 0, rdev |-> 0, size |-> 0, blocks |-> 0,
     nlink |-> 0]

\* lstat(2)
Lstat(fs, p) ==
    IF Exists(fs, p)
    THEN LET i == fs.names[p]
             n == fs.inodes[i]
         IN  [valid |-> TRUE, ino |-> i, kind |-> n.kind, perm |-> n.perm,
              uid |-> n.uid, gid |-> n.gid, mtime |-> n.mtime, flags |-> n.flags,
              dev |-> n.dev, rdev |-> n.rdev,
              size |-> IF n.kind = "lnk" THEN Len(n.target)
                       ELSE BlockBytes * Len(n.data)
                            - (IF n.tail = 0 THEN 0 ELSE BlockBytes - n.tail),
              blocks |-> Len(n.data) - n.unalloc,
              nlink |-> NLinks(fs, i) + n.xnlink]
    ELSE NoStat

\* inodes that still have a name
Live(names, inodes) ==
    [i \in {names[p] : p \in DOMAIN names} \ {0} |-> inodes[i]]

FreshIno(fs) ==
    CHOOSE i \in 1..(Cardinality(DOMAIN fs.inodes) + 1) :
        /\ i \notin DOMAIN fs.inodes
        /\ \A j \in 1..(i - 1) : j \in DOMAIN fs.inodes

Without(f, p) == [q \in DOMAIN f \ {p} |-> f[q]]

Ok(fs) == [fs |-> fs, err |-> "ok"]
Fail(fs, e) == [fs |-> fs, err |-> e]

\* create a new object of the given attributes at path p
Create(fs, p, attrs) ==
    IF p \in DOMAIN fs.names THEN Fail(fs, "EEXIST")
    ELSE IF ~ParentOk(fs, p) THEN Fail(fs, "ENOENT")
    ELSE LET i == FreshIno(fs)
         IN  Ok([names |-> (p :> i) @@ fs.names, inodes |-> (i :> attrs) @@ fs.inodes])

NewAttrs(fs, p, kind, perm) ==
    [kind |-> kind, perm |-> perm, uid |-> 0, gid |-> 0, mtime |-> Now, flags |-> 0,
     dev |-> IF Len(p) > 1 /\ Exists(fs, Parent(p)) THEN Node(fs, Parent(p)).dev ELSE 1,
     rdev |-> 0, data |-> <<>>, target |-> "", xnlink |-> 0, tail |-> 0,
     unalloc |-> 0, atime |-> Now]

\* unlink(2)
Unlink(fs, p) ==
    IF ~Exists(fs, p) THEN Fail(fs, "ENOENT")
    ELSE IF Node(fs, p).kind = "dir" THEN Fail(fs, "EPERM")
    ELSE IF Immutable(fs, p) THEN Fail(fs, "EPERM")
    ELSE LET nm == Without(fs.names, p)
         IN  Ok([names |-> nm, inodes |-> Live(nm, fs.inodes)])

\* rmdir(2)
Rmdir(fs, p) ==
    IF ~Exists(fs, p) THEN Fail(fs, "ENOENT")
    ELSE IF Node(fs, p).kind # "dir" THEN Fail(fs, "ENOTDIR")
    ELSE IF HasChildren(fs, p) THEN Fail(fs, "ENOTEMPTY")
    ELSE IF Immutable(fs, p) THEN Fail(fs, "EPERM")
    ELSE LET nm == Without(fs.names, p)
         IN  Ok([names |-> nm, inodes |-> Live(nm, fs.inodes)])

\* remove(3): rmdir for a directory, unlink for anything else
Remove(fs, p) == IF KindOf(fs, p) = "dir" THEN Rmdir(fs, p) ELSE Unlink(fs, p)

\* rename(2)
Rename(fs, src, dst) ==
    IF ~Exists(fs, src) THEN Fail(fs, "ENOENT")
    ELSE IF Immutable(fs, src) \/ Immutable(fs, dst) THEN Fail(fs, "EPERM")
    ELSE IF KindOf(fs, dst) = "dir" /\ KindOf(fs, src) # "dir" THEN Fail(fs, "EISDIR")
    ELSE IF KindOf(fs, dst) \notin {"dir", "none"} /\ KindOf(fs, src) = "dir"
         THEN Fail(fs, "ENOTDIR")
    ELSE IF KindOf(fs, dst) = "dir" /\ HasChildren(fs, dst) THEN Fail(fs, "ENOTEMPTY")
    ELSE IF ~ParentOk(fs, dst) THEN Fail(fs, "ENOENT")
    ELSE IF Exists(fs, dst) /\ fs.names[dst] = fs.names[src] THEN Ok(fs)
    ELSE LET nm == (dst :> fs.names[src]) @@ Without(Without(fs.names, src), dst)
         IN  Ok([names |-> nm, inodes |-> Live(nm, fs.inodes)])

\* link(2)
Link(fs, src, dst) ==
    IF ~Exists(fs, src) THEN Fail(fs, "ENOENT")
    ELSE IF KindOf(fs, src) = "dir" THEN Fail(fs, "EPERM")
    ELSE IF Immutable(fs, src) THEN Fail(fs, "EPERM")
    ELSE IF dst \in DOMAIN fs.names THEN Fail(fs, "EEXIST")
    ELSE IF ~ParentOk(fs, dst) THEN Fail(fs, "ENOENT")
    ELSE Ok([names |-> (dst :> fs.names[src]) @@ fs.names, inodes |-> fs.inodes])

SetAttr(fs, p, upd(_)) ==
    [fs EXCEPT !.inodes = [@ EXCEPT ![fs.names[p]] = upd(@)]]

\* chflags(2): the run is privileged, so flags can always be changed
Chflags(fs, p, flags) ==
    IF ~Exists(fs, p) THEN Fail(fs, "ENOENT")
    ELSE LET u(n) == [n EXCEPT !.flags = flags] IN Ok(SetAttr(fs, p, u))

\* chmod(2)
Chmod(fs, p, perm) ==
    IF ~Exists(fs, p) THEN Fail(fs, "ENOENT")
    ELSE IF Immutable(fs, p) THEN Fail(fs, "EPERM")
    ELSE LET u(n) == [n EXCEPT !.perm = perm] IN Ok(SetAttr(fs, p, u))

\* chown(2) / lchown(2)
Chown(fs, p, uid, gid) ==
    IF ~Exists(fs, p) THEN Fail(fs, "ENOENT")
    ELSE IF Immutable(fs, p) THEN Fail(fs, "EPERM")
    ELSE LET u(n) == [n EXCEPT !.uid = uid, !.gid = gid] IN Ok(SetAttr(fs, p, u))

\* utimes(2)
Utimes(fs, p, atime, mtime) ==
    IF ~Exists(fs, p) THEN Fail(fs, "ENOENT")
    ELSE IF Immutable(fs, p) THEN Fail(fs, "EPERM")
    ELSE LET u(n) == [n EXCEPT !.atime = atime, !.mtime = mtime]
         IN  Ok(SetAttr(fs, p, u))

\* mkdir(2)
Mkdir(fs, p, perm, um) == Create(fs, p, NewAttrs(fs, p, "dir", BitAndNot(perm, um)))

\* open(2) with O_WRONLY|O_CREAT|O_EXCL
OpenExcl(fs, p, perm, um) == Create(fs, p, NewAttrs(fs, p, "reg", BitAndNot(perm, um)))

\* symlink(2): the link's recorded permissions are 0777 & ~umask
Symlink(fs, target, p, um) ==
    Create(fs, p, [NewAttrs(fs, p, "lnk", BitAndNot(511, um)) EXCEPT !.target = target])

\* mknod(2)
Mknod(fs, p, kind, perm, rdev, um) ==
    Create(fs, p, [NewAttrs(fs, p, kind, BitAndNot(perm, um)) EXCEPT !.rdev = rdev])

\* write(2) of one block at the end of the open file with inode i; the block
\* holds t bytes (0 for a whole block)
WriteBlock(fs, i, b, t) ==
    [fs EXCEPT !.inodes = [@ EXCEPT ![i].data = Append(@, b), ![i].tail = t]]

\* the environment makes a call fail that would have succeeded
Sys(fs, res, fault) == IF fault THEN Fail(fs, "EIO") ELSE res

\* whether the environment may still make a call fail
Flt == IF faults < MaxFaults THEN {FALSE, TRUE} ELSE {FALSE}

B2N(b) == IF b THEN 1 ELSE 0

-----------------------------------------------------------------------------
(* WildCmp, shash, AddList: the per-directory ignore list *)

WildChars == {"*", "?", "{", "}", "[", "]", "|"}

\* *s, with "" for the terminating NUL
First(s) == IF s = "" THEN "" ELSE SubSeq(s, 1, 1)

\* variant of WildCmp: the loop of the * case starts at i = 1
RECURSIVE WildCmpFrom1(_, _)
WildCmpFrom1(w, s) ==
    IF First(w) = "*" THEN
        IF Len(w) = 1 THEN 0
        ELSE IF \E i \in 1..Len(s) : WildCmpFrom1(Tail(w), SubSeq(s, i + 1, Len(s))) = 0
             THEN 0 ELSE -1
    ELSE IF First(w) = "?" THEN
        IF s = "" THEN -1 ELSE WildCmpFrom1(Tail(w), Tail(s))
    ELSE IF First(w) # First(s) THEN -1
    ELSE IF w = "" THEN 0
    ELSE WildCmpFrom1(Tail(w), Tail(s))

RECURSIVE WildCmp(_, _)
WildCmp(w, s) ==
    IF First(w) = "*" THEN
        IF Len(w) = 1 THEN 0
        ELSE IF \E i \in 0..Len(s) : WildCmp(Tail(w), SubSeq(s, i + 1, Len(s))) = 0
             THEN 0 ELSE -1
    ELSE IF First(w) = "?" THEN
        IF s = "" THEN -1 ELSE WildCmp(Tail(w), Tail(s))
    ELSE IF First(w) # First(s) THEN -1
    ELSE IF w = "" THEN 0
    ELSE WildCmp(Tail(w), Tail(s))

\* bucket 0 for a name with a wildcard character, else the name's own bucket
\* (every literal is put in bucket 1: a bucket is scanned with strcmp)
shash(s) == IF \E i \in 1..Len(s) : SubSeq(s, i, i) \in WildChars THEN 0 ELSE 1

\* index of the first node of list (a hash chain, newest first) satisfying hit, or 0
FirstHit(list, hit(_)) ==
    IF \E k \in 1..Len(list) : hit(list[k])
    THEN CHOOSE k \in 1..Len(list) : hit(list[k]) /\ \A j \in 1..(k - 1) : ~hit(list[j])
    ELSE 0

\* variant of AddList: a node of any value is compared as a wildcard
AddListAnyValue(list, name, n) ==
    LET hv == shash(name)
        wnode(node) == /\ node.hv = 0
                       /\ \/ node.name = name
                          \/ (n # 1 /\ WildCmp(node.name, name) = 0)
        exact(node) == node.hv = hv /\ node.name = name
        k0 == FirstHit(list, wnode)
        k1 == FirstHit(list, exact)
    IN  IF k0 # 0 THEN [list |-> list, val |-> list[k0].value]
        ELSE IF k1 # 0 THEN [list |-> list, val |-> list[k1].value]
        ELSE [list |-> <<[name |-> name, value |-> n, hv |-> hv]>> \o list, val |-> n]

\* variant of AddList: the wildcard bucket is compared by name only
AddListLiteral(list, name, n) ==
    LET hv == shash(name)
        exact(node) == node.name = name
        k1 == FirstHit(list, exact)
    IN  IF k1 # 0 THEN [list |-> list, val |-> list[k1].value]
        ELSE [list |-> <<[name |-> name, value |-> n, hv |-> hv]>> \o list, val |-> n]

\* AddList(list, name, n): [list, val]
AddList(list, name, n) ==
    LET hv == shash(name)
        wild(node) == /\ node.hv = 0
                      /\ \/ node.name = name
                         \/ (n # 1 /\ node.value = 1 /\ WildCmp(node.name, name) = 0)
        exact(node) == node.hv = hv /\ node.name = name
        k0 == FirstHit(list, wild)
        k1 == FirstHit(list, exact)
    IN  IF k0 # 0 THEN [list |-> list, val |-> list[k0].value]
        ELSE IF k1 # 0 THEN [list |-> list, val |-> list[k1].value]
        ELSE [list |-> <<[name |-> name, value |-> n, hv |-> hv]>> \o list, val |-> n]

-----------------------------------------------------------------------------
(* The hardlink table *)

\* hltlookup: index of the entry for source inode ino, or 0 for NULL
hltlookup(tbl, ino) ==
    LET hit(hl) == hl.ino = ino IN FirstHit(tbl, hit)

\* variant of hltadd: the new entry counts no sighting
hltaddUncounted(tbl, st, path) ==
    <<[ino |-> st.ino, dino |-> 0, name |-> path, nlinked |-> 0]>> \o tbl

\* hltadd: a new entry, linked in at the head of its chain
hltadd(tbl, st, path) ==
    <<[ino |-> st.ino, dino |-> 0, name |-> path, nlinked |-> 1]>> \o tbl

\* variant of hltdelete: the entry stays in the table
hltdeleteNot(tbl, k) == tbl

\* hltdelete: unlink entry k
hltdelete(tbl, k) == SubSeq(tbl, 1, k - 1) \o SubSeq(tbl, k + 1, Len(tbl))

-----------------------------------------------------------------------------
(* xrename, xlink: rename and link with override of st_flags *)

\* variant of xrename: one attempt only
xrenameOnce(fs, src, dst, flags, inj) == Sys(fs, Rename(fs, src, dst), inj)

\* xrename(src, dst, flags); inj: the environment makes rename(2) fail
xrename(fs, src, dst, flags, inj) ==
    LET r1 == Sys(fs, Rename(fs, src, dst), inj)
    IN  IF r1.err = "ok" THEN r1
        ELSE LET fs1 == Chflags(fs, dst, 0).fs
                 r2 == Sys(fs1, Rename(fs1, src, dst), inj)
             IN  IF r2.err = "ok" THEN r2
                 ELSE [fs |-> Chflags(r2.fs, dst, flags).fs, err |-> r2.err]

\* variant of xlink: the flags of src stay cleared after the retry
xlinkCleared(fs, src, dst, flags, inj) ==
    LET r1 == IF inj # "" THEN Fail(fs, inj) ELSE Link(fs, src, dst)
    IN  IF r1.err = "ok" THEN r1
        ELSE LET fs1 == Chflags(fs, src, 0).fs
             IN  IF inj # "" THEN Fail(fs1, inj) ELSE Link(fs1, src, dst)

\* xlink(src, dst, flags); inj: "" or the errno the environment gives link(2)
xlink(fs, src, dst, flags, inj) ==
    LET r1 == IF inj # "" THEN Fail(fs, inj) ELSE Link(fs, src, dst)
    IN  IF r1.err = "ok" THEN r1
        ELSE LET fs1 == Chflags(fs, src, 0).fs
                 r2 == IF inj # "" THEN Fail(fs1, inj) ELSE Link(fs1, src, dst)
             IN  [fs |-> Chflags(r2.fs, src, flags).fs, err |-> r2.err]

-----------------------------------------------------------------------------
(* Call frames and step outcomes *)

Top == stack[Len(stack)]

Frame(fn, spath, dpath, sdev, ddev) ==
    [fn |-> fn, pc |-> "start", spath |-> spath, dpath |-> dpath,
     sdevNo |-> sdev, ddevNo |-> ddev, r |-> 0,
     st1 |-> NoStat, st2 |-> NoStat, st2Valid |-> FALSE, hln |-> FALSE,
     list |-> <<>>, noLoop |-> FALSE, left |-> {}, fd2 |-> 0, off |-> 0,
     tryrelink |-> FALSE]

\* DoCopy(spath, dpath, sdevNo, ddevNo) on entry
DoCopyFrame(spath, dpath, sdev, ddev) == Frame("DoCopy", spath, dpath, sdev, ddev)

\* RemoveRecur(dpath, devNo) on entry
RemoveRecurFrame(dpath, dev) == Frame("RemoveRecur", <<>>, dpath, NoDev, dev)

\* what one step leaves: the globals, and the step's effect on the call stack
Base ==
    [dfs |-> dfs, hlt |-> hltable, cnt |-> cnt, um |-> dumask, nf |-> 0, ne |-> 0,
     ans |-> "", kind |-> "goto", frame |-> Top, val |-> 0, callee |-> Top]

Goto(o, f) == [o EXCEPT !.kind = "goto", !.frame = f]
Ret(o, v) == [o EXCEPT !.kind = "ret", !.val = v]
Call(o, f, c) == [o EXCEPT !.kind = "call", !.frame = f, !.callee = c]

\* k calls of one step: which of them the environment makes fail
FltN(k) ==
    {w \in [1..k -> BOOLEAN] : Cardinality({i \in 1..k : w[i]}) <= MaxFaults - faults}

\* faults to try on a call that would succeed
FltIf(ok) == IF ok THEN Flt ELSE {FALSE}

\* the next name readdir returns among those left
\* (a name with ".tmp" appended comes right after the name itself)
RECURSIVE NameRank(_)
NameRank(n) ==
    IF \E k \in 1..Len(NameOrder) : NameOrder[k] = n
    THEN 4 * (CHOOSE k \in 1..Len(NameOrder) : NameOrder[k] = n)
    ELSE 1 + NameRank(SubSeq(n, 1, Len(n) - 4))

NextName(left) ==
    IF opt.rev
    THEN CHOOSE n \in left : \A m \in left : NameRank(m) <= NameRank(n)
    ELSE CHOOSE n \in left : \A m \in left : NameRank(n) <= NameRank(m)

\* "size" of DoCopy: st_blocks * 512, less the unused tail of the last block
SizeOf(st) ==
    IF st.kind = "reg"
    THEN st.blocks * BlockBytes
         + (IF st.size % BlockBytes # 0 THEN (st.size % BlockBytes) - BlockBytes ELSE 0)
    ELSE 0

-----------------------------------------------------------------------------
(* DoCopy *)

\* variant of NoSource: a source that cannot be stat'ed counts as an error
NoSourceCounted == Ret(Base, 1)

\* the lstat of the source path failed: return(0)
NoSource == Ret(Base, 0)

\* entry, lstat of both sides, hardlink probe up to the unlink of a wrong link
DoCopyStart(f) ==
    LET st1 == Lstat(sfs, f.spath)
        st2 == Lstat(dfs, f.dpath)
        f1 == [f EXCEPT !.st1 = st1, !.st2 = st2, !.st2Valid = st2.valid]
        h == hltlookup(hltable, st1.ino)
        tbl1 == [hltable EXCEPT ![h].nlinked = @ + 1]
        rm(fault) == Sys(dfs, Remove(dfs, f.dpath), fault)
    IN  IF ~st1.valid THEN {NoSource}
        ELSE IF st1.kind = "reg" /\ st1.nlink > 1 THEN
            IF h # 0 THEN
                IF st2.valid THEN
                    IF st2.ino = tbl1[h].dino
                    THEN {Ret([Base EXCEPT
                                 !.hlt = IF tbl1[h].nlinked = st1.nlink
                                         THEN hltdelete(tbl1, h) ELSE tbl1,
                                 !.cnt.SourceItems = @ + 1], 0)}
                    ELSE {IF rm(fault).err # "ok"
                          THEN Ret([Base EXCEPT !.hlt = hltdelete(tbl1, h),
                                                !.nf = B2N(fault), !.ne = 1], f.r + 1)
                          ELSE Goto([Base EXCEPT !.dfs = rm(fault).fs, !.hlt = tbl1],
                                    [f1 EXCEPT !.pc = "xlink", !.hln = TRUE])
                          : fault \in FltIf(Remove(dfs, f.dpath).err = "ok")}
                ELSE {Goto([Base EXCEPT !.hlt = tbl1],
                           [f1 EXCEPT !.pc = "xlink", !.hln = TRUE])}
            ELSE {Goto([Base EXCEPT !.hlt = hltadd(hltable, st1, f.dpath)],
                       [f1 EXCEPT !.pc = "check", !.hln = TRUE])}
        ELSE {Goto(Base, [f1 EXCEPT !.pc = "check"])}

\* errno values the environment may give a link(2) that would succeed
LinkFaults == IF faults < MaxFaults THEN {"", "EMLINK", "EIO"} ELSE {""}

\* hardlink probe: link the destination to the first copy
DoCopyXlink(f) ==
    LET h == hltlookup(hltable, f.st1.ino)
        hl == hltable[h]
        natural == xlink(dfs, hl.name, f.dpath, f.st1.flags, "").err = "ok"
    IN  {LET x == xlink(dfs, hl.name, f.dpath, f.st1.flags, inj)
             o == [Base EXCEPT !.dfs = x.fs, !.nf = B2N(inj # ""),
                               !.ne = B2N(x.err # "ok")]
         IN  IF x.err # "ok" THEN
                 IF x.err = "EMLINK"
                 THEN Goto([o EXCEPT !.hlt = hltadd(hltdelete(hltable, h), f.st1, f.dpath)],
                           [f EXCEPT !.pc = "check", !.hln = TRUE, !.tryrelink = TRUE])
                 ELSE Goto([o EXCEPT !.hlt = hltdelete(hltable, h)],
                           [f EXCEPT !.pc = "check", !.hln = FALSE, !.r = @ + 1])
             ELSE Ret([o EXCEPT !.hlt = IF hl.nlinked = f.st1.nlink
                                        THEN hltdelete(hltable, h) ELSE hltable,
                                !.cnt.SourceItems = @ + 1,
                                !.cnt.CopiedItems = @ + 1], 0)
         : inj \in IF natural THEN LinkFaults ELSE {""}}

\* variant of NoChange: the modification times are not compared
NoChangeLoose(st1, st2) ==
    /\ ~opt.ForceOpt
    /\ st1.size = st2.size
    /\ st1.uid = st2.uid
    /\ st1.gid = st2.gid

\* the test of the no-change check for anything but a symlink or a directory
NoChange(st1, st2) ==
    /\ ~opt.ForceOpt
    /\ st1.size = st2.size
    /\ st1.uid = st2.uid
    /\ st1.gid = st2.gid
    /\ st1.mtime = st2.mtime

\* no-change check, then the file-over-directory conflict
DoCopyCheck(f) ==
    LET st1 == f.st1
        st2 == f.st2
        h == hltlookup(hltable, st1.ino)
    IN  IF /\ f.st2Valid
           /\ st1.kind = st2.kind /\ st1.perm = st2.perm
           /\ st1.flags = st2.flags
           /\ st1.kind \notin {"lnk", "dir"}
           /\ NoChange(st1, st2)
        THEN {Ret([Base EXCEPT
                     !.hlt = IF f.hln THEN [hltable EXCEPT ![h].dino = st2.ino]
                             ELSE hltable,
                     !.cnt.SourceBytes = @ + SizeOf(st1),
                     !.cnt.SourceItems = @ + 1], 0)}
        ELSE IF f.st2Valid /\ st1.kind # "dir" /\ st2.kind = "dir" THEN
            IF opt.SafetyOpt
            THEN {Ret(Base, 0)}
            ELSE {Call(Base, [f EXCEPT !.pc = "dispatch"],
                       RemoveRecurFrame(f.dpath, f.ddevNo))}
        ELSE {Goto(Base, [f EXCEPT !.pc = "dispatch"])}

\* the ignore file's lines added with tag 1; [list, read]
RECURSIVE AddLines(_, _, _)
AddLines(list, lines, read) ==
    IF lines = <<>> THEN [list |-> list, read |-> read]
    ELSE LET buf == Head(lines)
         IN  AddLines(IF buf # "" /\ First(buf) # "#"
                      THEN AddList(list, buf, TagIgnore).list ELSE list,
                      Tail(lines), read + Len(buf) + 1)

\* scan of the .cpignore file of directory spath
LoadIgnore(list, spath) ==
    IF opt.UseCpFile = "" THEN [list |-> list, read |-> 0]
    ELSE LET fpath == Child(spath, opt.UseCpFile)
             l1 == AddList(list, opt.UseCpFile, TagIgnore).list
         IN  IF KindOf(sfs, fpath) = "reg"
             THEN AddLines(l1, Node(sfs, fpath).data, 0)
             ELSE [list |-> l1, read |-> 0]

\* directory: open the source, create or repair the destination directory,
\* device checks, ignore list
DoCopyDirEnter(f) ==
    LET st1 == f.st1
        mk == f.st2.kind # "dir"
        fsr == Remove(dfs, f.dpath).fs
        mkperm == BitOr(st1.perm, S_IRWXU)
        fixperm == BitOr(f.st2.perm, S_IRWXU)
    IN  {IF w[1] THEN Ret([Base EXCEPT !.nf = 1, !.ne = 1], f.r)
         ELSE LET mkres == Sys(fsr, Mkdir(fsr, f.dpath, mkperm, dumask), w[2])
                  mkfail == mk /\ mkres.err # "ok"
                  relst == Lstat(mkres.fs, f.dpath)
                  fs1 == IF mk THEN Chown(mkres.fs, f.dpath, st1.uid, st1.gid).fs
                         ELSE IF fixperm # f.st2.perm
                              THEN Chmod(dfs, f.dpath, fixperm).fs
                              ELSE dfs
                  st2n == IF mk THEN (IF relst.valid THEN relst ELSE f.st2)
                          ELSE [f.st2 EXCEPT !.perm = fixperm]
                  sbad == f.sdevNo >= 0 /\ st1.dev # f.sdevNo
                  dbad == f.ddevNo >= 0 /\ st2n.dev # f.ddevNo
                  ign == LoadIgnore(f.list, f.spath)
              IN  Goto([Base EXCEPT !.dfs = fs1,
                                    !.nf = B2N(mk /\ w[2]),
                                    !.ne = B2N(mkfail),
                                    !.cnt.CopiedItems = @ + B2N(mk),
                                    !.cnt.ReadBytes = @ + ign.read],
                       [f EXCEPT !.pc = "srcloop",
                                 !.r = IF mkfail THEN 1 ELSE @,
                                 !.noLoop = mkfail \/ sbad \/ dbad,
                                 !.st2 = st2n,
                                 !.sdevNo = IF sbad THEN @ ELSE st1.dev,
                                 !.ddevNo = IF dbad THEN @ ELSE st2n.dev,
                                 !.list = ign.list,
                                 !.left = Entries(sfs, f.spath)])
         : w \in {v \in FltN(2) : v[2] => (mk /\ Mkdir(fsr, f.dpath, mkperm, dumask).err = "ok")}}

\* source loop: one readdir of the source directory and the recursive DoCopy
DoCopySrcNext(f) ==
    LET name == NextName(f.left)
        a == AddList(f.list, name, TagSource)
        f1 == [f EXCEPT !.left = @ \ {name}, !.list = a.list]
    IN  IF a.val = 1 THEN {Goto(Base, f1)}
        ELSE {Call(Base, f1, DoCopyFrame(Child(f.spath, name), Child(f.dpath, name),
                                         f.sdevNo, f.ddevNo))}

\* end of the source loop: closedir, opendir of the destination directory
DoCopySrcDone(f) ==
    IF KindOf(dfs, f.dpath) = "dir"
    THEN {Goto(Base, [f EXCEPT !.pc = "dstloop", !.left = Entries(dfs, f.dpath)])}
    ELSE {Goto(Base, [f EXCEPT !.pc = "dirfix", !.left = {}])}

\* variant of DoCopyDstNext: every name not on the ignore list is pruned
DoCopyDstNextAny(f) ==
    LET name == NextName(f.left)
        a == AddList(f.list, name, TagDest)
        f1 == [f EXCEPT !.left = @ \ {name}, !.list = a.list]
    IN  IF a.val # TagIgnore
        THEN {Call(Base, f1, RemoveRecurFrame(Child(f.dpath, name), f.ddevNo))}
        ELSE {Goto(Base, f1)}

\* prune loop: one readdir of the destination directory
DoCopyDstNext(f) ==
    LET name == NextName(f.left)
        a == AddList(f.list, name, TagDest)
        f1 == [f EXCEPT !.left = @ \ {name}, !.list = a.list]
    IN  IF a.val = 3
        THEN {Call(Base, f1, RemoveRecurFrame(Child(f.dpath, name), f.ddevNo))}
        ELSE {Goto(Base, f1)}

\* end of the prune loop
DoCopyDstDone(f) == {Goto(Base, [f EXCEPT !.pc = "dirfix", !.left = {}])}

\* variant of DoCopyDirFix: the mode is left as the traversal needed it
DoCopyDirFixNoMode(f) ==
    LET st1 == f.st1
        st2 == f.st2
    IN  {LET fs1 == IF /\ (opt.ForceOpt \/ ~f.st2Valid
                            \/ st1.uid # st2.uid \/ st1.gid # st2.gid)
                       /\ ~w[1]
                    THEN Chown(dfs, f.dpath, st1.uid, st1.gid).fs ELSE dfs
             fs3 == IF ~f.st2Valid \/ st1.flags # st2.flags
                    THEN Chflags(fs1, f.dpath, st1.flags).fs ELSE fs1
         IN  Ret([Base EXCEPT !.dfs = fs3, !.nf = B2N(w[1]) + B2N(w[2])], f.r)
         : w \in FltN(2)}

\* reapply owner, mode and flags to the destination directory; ResetList; return
DoCopyDirFix(f) ==
    LET st1 == f.st1
        st2 == f.st2
    IN  {LET fs1 == IF /\ (opt.ForceOpt \/ ~f.st2Valid
                            \/ st1.uid # st2.uid \/ st1.gid # st2.gid)
                       /\ ~w[1]
                    THEN Chown(dfs, f.dpath, st1.uid, st1.gid).fs ELSE dfs
             fs2 == IF /\ (~f.st2Valid \/ st1.kind # st2.kind \/ st1.perm # st2.perm)
                       /\ ~w[2]
                    THEN Chmod(fs1, f.dpath, st1.perm).fs ELSE fs1
             fs3 == IF ~f.st2Valid \/ st1.flags # st2.flags
                    THEN Chflags(fs2, f.dpath, st1.flags).fs ELSE fs2
         IN  Ret([Base EXCEPT !.dfs = fs3, !.nf = B2N(w[1]) + B2N(w[2])], f.r)
         : w \in FltN(2)}

\* variant of checkHLPath: no file under the -H path is ever taken
checkHLPathNone(st1, spath, dpath) == <<>>

\* checkHLPath: the -H path to link from, or <<>> for NULL
checkHLPath(st1, spath, dpath) ==
    LET hpath == <<opt.UseHLPath>> \o SubSeq(dpath, DstBaseLen + 1, Len(dpath))
        sthl == Lstat(dfs, hpath)
    IN  IF \/ ~sthl.valid
           \/ st1.size # sthl.size
           \/ st1.uid # sthl.uid
           \/ st1.gid # sthl.gid
           \/ st1.mtime # sthl.mtime
        THEN <<>>
        ELSE IF opt.ForceOpt /\ ~(sthl.kind = "reg"
                                  /\ Node(sfs, spath).data = Node(dfs, hpath).data)
        THEN <<>>
        ELSE hpath

\* skip_copy: the end of the regular-file branch, ResetList, return
SkipCopy(o, f) ==
    LET h == hltlookup(o.hlt, f.st1.ino)
        st == Lstat(o.dfs, f.dpath)
    IN  Ret([o EXCEPT !.hlt = IF ~f.hln THEN @
                              ELSE IF f.r = 0 /\ st.valid
                                   THEN [@ EXCEPT ![h].dino = st.ino]
                                   ELSE hltdelete(@, h)],
            f.r)

\* regular file: link from the -H path, or open the source and the temp file
DoCopyRegOpen(f) ==
    LET path == TmpPath(f.dpath)
        hpath == IF opt.UseHLPath = "" THEN <<>>
                 ELSE checkHLPath(f.st1, f.spath, f.dpath)
        linkable == hpath # <<>> /\ Link(dfs, hpath, f.dpath).err = "ok"
        fsb == Remove(Chflags(dfs, path, 0).fs, path).fs
    IN  {LET hl == Sys(dfs, Link(dfs, hpath, f.dpath), w[3])
             nl == B2N(hpath # <<>>)
         IN  IF hpath # <<>> /\ hl.err = "ok"
             THEN SkipCopy([Base EXCEPT !.dfs = hl.fs], f)
             ELSE IF w[1] THEN SkipCopy([Base EXCEPT !.nf = B2N(w[3]) + 1, !.ne = nl + 1],
                                        [f EXCEPT !.r = @ + 1])
             ELSE LET o1 == Sys(dfs, OpenExcl(dfs, path, TmpPerm, dumask), w[2])
                      o2 == IF o1.err = "ok" THEN o1
                            ELSE Sys(fsb, OpenExcl(fsb, path, TmpPerm, dumask), w[2])
                      o == [Base EXCEPT !.dfs = o2.fs, !.nf = B2N(w[3]) + B2N(w[2]),
                                        !.ne = nl + B2N(o2.err # "ok")]
                  IN  IF o2.err = "ok"
                      THEN Goto(o, [f EXCEPT !.pc = "copy", !.fd2 = o2.fs.names[path],
                                             !.off = 0])
                      ELSE SkipCopy(o, [f EXCEPT !.r = @ + 1])
         : w \in {v \in FltN(3) : /\ v[3] => linkable
                                  /\ (linkable /\ ~v[3]) => (~v[1] /\ ~v[2])}}

\* copy loop: one block read from the source and written to the temp file
DoCopyRegBlock(f) ==
    LET path == TmpPath(f.dpath)
        data == Node(sfs, f.spath).data
    IN  {IF fault
         THEN SkipCopy([Base EXCEPT !.dfs = Remove(dfs, path).fs, !.nf = 1, !.ne = 1],
                       [f EXCEPT !.r = @ + 1])
         ELSE Goto([Base EXCEPT !.dfs = WriteBlock(dfs, f.fd2, data[f.off + 1],
                                                   IF f.off + 1 = Len(data)
                                                   THEN Node(sfs, f.spath).tail
                                                   ELSE 0)],
                   [f EXCEPT !.off = @ + 1])
         : fault \in Flt}

\* end of file: close, then utimes of the temp file, both times st1.st_mtime
DoCopyRegUtimes(f) ==
    {Goto([Base EXCEPT
             !.dfs = Sys(dfs, Utimes(dfs, TmpPath(f.dpath), f.st1.mtime, f.st1.mtime),
                         fault).fs,
             !.nf = B2N(fault)],
          [f EXCEPT !.pc = "chown"])
     : fault \in Flt}

\* variant of DoCopyRegChown: the mode is set where the owner should be
DoCopyRegChownMode(f) ==
    {Goto([Base EXCEPT
             !.dfs = Sys(dfs, Chmod(dfs, TmpPath(f.dpath), f.st1.perm), fault).fs,
             !.nf = B2N(fault)],
          [f EXCEPT !.pc = "chmod"])
     : fault \in Flt}

\* chown of the temp file
DoCopyRegChown(f) ==
    {Goto([Base EXCEPT
             !.dfs = Sys(dfs, Chown(dfs, TmpPath(f.dpath), f.st1.uid, f.st1.gid),
                         fault).fs,
             !.nf = B2N(fault)],
          [f EXCEPT !.pc = "chmod"])
     : fault \in Flt}

\* chmod of the temp file
DoCopyRegChmod(f) ==
    {Goto([Base EXCEPT
             !.dfs = Sys(dfs, Chmod(dfs, TmpPath(f.dpath), f.st1.perm), fault).fs,
             !.nf = B2N(fault)],
          [f EXCEPT !.pc = "rename"])
     : fault \in Flt}

\* rename of the temp file over dpath, flags, counters, skip_copy
DoCopyRegRename(f) ==
    LET path == TmpPath(f.dpath)
        st1 == f.st1
        size == SizeOf(st1)
    IN  {LET x == xrename(dfs, path, f.dpath, f.st2.flags, fault)
             fs2 == IF x.err = "ok" /\ st1.flags # 0
                    THEN Chflags(x.fs, f.dpath, st1.flags).fs ELSE x.fs
             o == [Base EXCEPT !.dfs = fs2, !.nf = B2N(fault),
                               !.ne = B2N(x.err # "ok"),
                               !.cnt.ReadBytes = @ + size,
                               !.cnt.WriteBytes = @ + size,
                               !.cnt.SourceBytes = @ + size,
                               !.cnt.SourceItems = @ + 1,
                               !.cnt.CopiedItems = @ + 1]
         IN  SkipCopy(o, [f EXCEPT !.r = IF x.err = "ok" THEN @ ELSE @ + 1])
         : fault \in FltIf(xrename(dfs, path, f.dpath, f.st2.flags, FALSE).err = "ok")}

\* symlink: readlink both sides, recreate through the temp path if they differ
DoCopySymlink(f) ==
    LET path == TmpPath(f.dpath)
        st1 == f.st1
        link1 == Node(sfs, f.spath).target
        n1 == Len(link1)
        islnk == KindOf(dfs, f.dpath) = "lnk"
        link2 == IF islnk THEN Node(dfs, f.dpath).target ELSE ""
        n2 == IF islnk THEN Len(link2) ELSE -1
        um1 == 511 - st1.perm
        fs1 == Remove(dfs, path).fs
        seen == [Base EXCEPT !.cnt.SourceBytes = @ + n1,
                             !.cnt.ReadBytes = @ + n1 + (IF n2 > 0 THEN n2 ELSE 0),
                             !.cnt.SourceItems = @ + 1]
    IN  {IF w[1] THEN Ret([Base EXCEPT !.nf = 1, !.ne = 1], 1)
         ELSE IF opt.ForceOpt \/ n1 # n2 \/ link1 # link2 THEN
             LET sl == Sys(fs1, Symlink(fs1, link1, path, um1), w[2])
                 fs2 == Chown(sl.fs, path, st1.uid, st1.gid).fs
                 x == xrename(fs2, path, f.dpath, f.st2.flags, w[3])
             IN  IF sl.err # "ok"
                 THEN Ret([seen EXCEPT !.dfs = sl.fs, !.um = um1, !.nf = B2N(w[2]),
                                       !.ne = 1],
                          f.r + 1)
                 ELSE Ret([seen EXCEPT !.dfs = x.fs, !.um = 0,
                                       !.nf = B2N(w[2]) + B2N(w[3]),
                                       !.ne = B2N(x.err # "ok"),
                                       !.cnt.WriteBytes = @ + n1,
                                       !.cnt.CopiedItems = @ + 1], f.r)
         ELSE Ret(seen, f.r)
         : w \in FltN(3)}

\* block or character device: recreate through the temp path if it differs
DoCopyDevice(f) ==
    LET path == TmpPath(f.dpath)
        st1 == f.st1
        st2 == f.st2
        fs1 == Remove(dfs, path).fs
        seen == [Base EXCEPT !.cnt.SourceItems = @ + 1]
    IN  {IF \/ opt.ForceOpt
            \/ ~f.st2Valid
            \/ st1.kind # st2.kind \/ st1.perm # st2.perm
            \/ st1.rdev # st2.rdev
            \/ st1.uid # st2.uid
            \/ st1.gid # st2.gid
         THEN LET mk == Sys(fs1, Mknod(fs1, path, st1.kind, st1.perm, st1.rdev, dumask), w[1])
                  fs2 == Chmod(mk.fs, path, st1.perm).fs
                  fs3 == Chown(fs2, path, st1.uid, st1.gid).fs
                  fs4 == Remove(fs3, f.dpath).fs
                  x == xrename(fs4, path, f.dpath, st2.flags, w[2])
              IN  IF mk.err = "ok"
                  THEN Ret([seen EXCEPT !.dfs = x.fs, !.nf = B2N(w[1]) + B2N(w[2]),
                                        !.ne = B2N(x.err # "ok"),
                                        !.cnt.CopiedItems = @ + 1], f.r)
                  ELSE Ret([seen EXCEPT !.dfs = mk.fs, !.nf = B2N(w[1]), !.ne = 1], 1)
         ELSE Ret(seen, f.r)
         : w \in FltN(2)}

\* any other kind of source object: nothing is done for it
DoCopyOther(f) == {Ret(Base, f.r)}

-----------------------------------------------------------------------------
(* RemoveRecur *)

\* what getchar can return first at a prompt: a letter, the newline of an
\* empty line, or EOF
Answers == {"y", "Y", "n", "\n", "EOF"}

\* variant of YesNo: anything but n is a yes
YesNoNotN(first) == first # "n"

\* YesNo(path): first is the first character read; the rest of the line is dropped
YesNo(first) == first = "y" \/ first = "Y"

\* the removal of one object, with the prompt of YesNo when asked for
RemoveObject(f, res) ==
    IF opt.AskConfirmation /\ ~opt.NoRemoveOpt THEN
        UNION {IF YesNo(first)
               THEN {Ret([Base EXCEPT !.dfs = Sys(dfs, res, fault).fs, !.nf = B2N(fault),
                                      !.ne = B2N(Sys(dfs, res, fault).err # "ok"),
                                      !.cnt.RemovedItems = @ + 1,
                                      !.ans = first], 0)
                     : fault \in FltIf(res.err = "ok")}
               ELSE {Ret([Base EXCEPT !.ans = first], 0)}
               : first \in Answers}
    ELSE IF opt.NoRemoveOpt THEN {Ret(Base, 0)}
    ELSE {Ret([Base EXCEPT !.dfs = Sys(dfs, res, fault).fs, !.nf = B2N(fault),
                           !.ne = B2N(Sys(dfs, res, fault).err # "ok"),
                           !.cnt.RemovedItems =
                               @ + B2N(Sys(dfs, res, fault).err = "ok")], 0)
          : fault \in FltIf(res.err = "ok")}

\* lstat, device check; a directory is opened, anything else is removed
RemoveRecurStart(f) ==
    LET st == Lstat(dfs, f.dpath)
        devNo == IF f.ddevNo < 0 THEN st.dev ELSE f.ddevNo
    IN  IF ~st.valid \/ st.dev # devNo THEN {Ret(Base, 0)}
        ELSE IF st.kind = "dir"
        THEN {Goto(Base, [f EXCEPT !.pc = "loop", !.ddevNo = devNo,
                                   !.left = Entries(dfs, f.dpath)])}
        ELSE RemoveObject(f, Remove(dfs, f.dpath))

\* one readdir of the directory being removed and the recursive RemoveRecur
RemoveRecurNext(f) ==
    LET name == NextName(f.left)
    IN  {Call(Base, [f EXCEPT !.left = @ \ {name}],
              RemoveRecurFrame(Child(f.dpath, name), f.ddevNo))}

\* closedir, then the rmdir of the directory
RemoveRecurRmdir(f) == RemoveObject(f, Rmdir(dfs, f.dpath))

-----------------------------------------------------------------------------
(* The trees and options an execution starts from *)

Attr(kind, perm, id, mtime, flags, data, target) ==
    [kind |-> kind, perm |-> perm, uid |-> id, gid |-> id, mtime |-> mtime,
     flags |-> flags, dev |-> 1, rdev |-> 0, data |-> data, target |-> target,
     xnlink |-> 0, tail |-> 0, unalloc |-> 0, atime |-> 0]

Dir(perm, id) == Attr("dir", perm, id, 1, 0, <<>>, "")
Reg(perm, id, mtime, flags, data) == Attr("reg", perm, id, mtime, flags, data, "")
Lnk(id, target) == Attr("lnk", 493, id, 1, 0, <<>>, target)

S == <<"S">>
D == <<"D">>

NoFS == [names |-> <<>>, inodes |-> <<>>]

\* scenario 1: a, b hard-linked to a, symlink c, directory d holding e
SrcLinks ==
    [names |-> (S :> 1) @@ (<<"S", "a">> :> 2) @@ (<<"S", "b">> :> 2)
               @@ (<<"S", "c">> :> 3) @@ (<<"S", "d">> :> 4)
               @@ (<<"S", "d", "e">> :> 5),
     inodes |-> (1 :> Dir(493, 1)) @@ (2 :> Reg(420, 1, 1, 0, <<"hello">>))
                @@ (3 :> Lnk(1, "a")) @@ (4 :> Dir(488, 1))
                @@ (5 :> Reg(384, 1, 2, 0, <<"e1", "e2">>))]

\* one regular file a
SrcOne ==
    [names |-> (S :> 1) @@ (<<"S", "a">> :> 2),
     inodes |-> (1 :> Dir(493, 1)) @@ (2 :> Reg(420, 1, 2, 0, <<"new">>))]

\* one immutable regular file a
SrcFlag ==
    [names |-> (S :> 1) @@ (<<"S", "a">> :> 2),
     inodes |-> (1 :> Dir(493, 1)) @@ (2 :> Reg(420, 1, 2, 1, <<"new">>))]

\* a and b hard-linked
SrcPair ==
    [names |-> (S :> 1) @@ (<<"S", "a">> :> 2) @@ (<<"S", "b">> :> 2),
     inodes |-> (1 :> Dir(493, 1)) @@ (2 :> Reg(420, 1, 2, 0, <<"new">>))]

\* an older a, a stale file x and a stale directory y holding z
DstStale ==
    [names |-> (D :> 1) @@ (<<"D", "a">> :> 2) @@ (<<"D", "x">> :> 3)
               @@ (<<"D", "y">> :> 4) @@ (<<"D", "y", "z">> :> 5),
     inodes |-> (1 :> Dir(493, 1)) @@ (2 :> Reg(420, 1, 1, 0, <<"old">>))
                @@ (3 :> Reg(420, 0, 1, 0, <<"x">>)) @@ (4 :> Dir(493, 0))
                @@ (5 :> Reg(420, 0, 1, 0, <<"z">>))]

\* a directory a holding k where the source has the file a
DstDir ==
    [names |-> (D :> 1) @@ (<<"D", "a">> :> 2) @@ (<<"D", "a", "k">> :> 3),
     inodes |-> (1 :> Dir(493, 1)) @@ (2 :> Dir(493, 1))
                @@ (3 :> Reg(420, 1, 1, 0, <<"k">>))]

\* a with the source's size, owner, mode and mtime but other content
DstAlike ==
    [names |-> (D :> 1) @@ (<<"D", "a">> :> 2),
     inodes |-> (1 :> Dir(493, 1)) @@ (2 :> Reg(420, 1, 2, 0, <<"alt">>))]

\* an older, immutable a
DstFlag ==
    [names |-> (D :> 1) @@ (<<"D", "a">> :> 2),
     inodes |-> (1 :> Dir(493, 1)) @@ (2 :> Reg(420, 1, 1, 1, <<"old">>))]

\* a and b as two files, each a faithful copy of the source file
DstSplit ==
    [names |-> (D :> 1) @@ (<<"D", "a">> :> 2) @@ (<<"D", "b">> :> 3),
     inodes |-> (1 :> Dir(493, 1)) @@ (2 :> Reg(420, 1, 2, 0, <<"new">>))
                @@ (3 :> Reg(420, 1, 2, 0, <<"new">>))]

\* a faithful a, and an empty directory where the source has the link b
DstLinkDir ==
    [names |-> (D :> 1) @@ (<<"D", "a">> :> 2) @@ (<<"D", "b">> :> 3),
     inodes |-> (1 :> Dir(493, 1)) @@ (2 :> Reg(420, 1, 2, 0, <<"new">>))
                @@ (3 :> Dir(493, 1))]

\* a faithful a, and a directory b holding k where the source has the link b
DstLinkTree ==
    [names |-> (D :> 1) @@ (<<"D", "a">> :> 2) @@ (<<"D", "b">> :> 3)
               @@ (<<"D", "b", "k">> :> 4),
     inodes |-> (1 :> Dir(493, 1)) @@ (2 :> Reg(420, 1, 2, 0, <<"new">>))
                @@ (3 :> Dir(493, 1)) @@ (4 :> Reg(420, 1, 1, 0, <<"k">>))]

\* an ignore file naming x and *.o, and the files a, x and b.o
SrcIgnore ==
    [names |-> (S :> 1) @@ (<<"S", ".cpignore">> :> 2) @@ (<<"S", "a">> :> 3)
               @@ (<<"S", "x">> :> 4) @@ (<<"S", "b.o">> :> 5),
     inodes |-> (1 :> Dir(493, 1))
                @@ (2 :> Reg(420, 1, 1, 0, <<"x", "", "#z", "*.o">>))
                @@ (3 :> Reg(420, 1, 2, 0, <<"new">>))
                @@ (4 :> Reg(420, 1, 2, 0, <<"new">>))
                @@ (5 :> Reg(420, 1, 2, 0, <<"obj">>))]

\* an older x, and the files k.o and z the source does not have
DstIgnore ==
    [names |-> (D :> 1) @@ (<<"D", "x">> :> 2) @@ (<<"D", "k.o">> :> 3)
               @@ (<<"D", "z">> :> 4),
     inodes |-> (1 :> Dir(493, 1)) @@ (2 :> Reg(420, 1, 1, 0, <<"old">>))
                @@ (3 :> Reg(420, 1, 1, 0, <<"obj">>))
                @@ (4 :> Reg(420, 1, 1, 0, <<"z">>))]

\* the objects of fs moved to the devices d1 (those of device 1) and d2
OnDevs(fs, d1, d2) ==
    [fs EXCEPT !.inodes = [i \in DOMAIN @ |-> [@[i] EXCEPT !.dev = IF @ = 1 THEN d1 ELSE d2]]]

\* a directory c holding e, and a directory d holding e that is the root of
\* another filesystem (device 2)
SrcMount ==
    [names |-> (S :> 1) @@ (<<"S", "c">> :> 2) @@ (<<"S", "c", "e">> :> 3)
               @@ (<<"S", "d">> :> 4) @@ (<<"S", "d", "e">> :> 5),
     inodes |-> (1 :> Dir(493, 1)) @@ (2 :> Dir(493, 1))
                @@ (3 :> Reg(420, 1, 2, 0, <<"new">>))
                @@ (4 :> [Dir(493, 1) EXCEPT !.dev = 2])
                @@ (5 :> [Reg(420, 1, 2, 0, <<"new">>) EXCEPT !.dev = 2])]

\* c holding z and y holding k, both roots of another filesystem (device 2),
\* and a directory d holding z
DstMount ==
    [names |-> (D :> 1) @@ (<<"D", "c">> :> 2) @@ (<<"D", "c", "z">> :> 3)
               @@ (<<"D", "d">> :> 4) @@ (<<"D", "d", "z">> :> 5)
               @@ (<<"D", "y">> :> 6) @@ (<<"D", "y", "k">> :> 7),
     inodes |-> (1 :> Dir(493, 1))
                @@ (2 :> [Dir(493, 1) EXCEPT !.dev = 2])
                @@ (3 :> [Reg(420, 1, 1, 0, <<"z">>) EXCEPT !.dev = 2])
                @@ (4 :> Dir(493, 1))
                @@ (5 :> Reg(420, 1, 1, 0, <<"z">>))
                @@ (6 :> [Dir(493, 1) EXCEPT !.dev = 2])
                @@ (7 :> [Reg(420, 1, 1, 0, <<"k">>) EXCEPT !.dev = 2])]

\* a regular file a that has a second name outside the source tree
SrcOut ==
    [names |-> (S :> 1) @@ (<<"S", "a">> :> 2),
     inodes |-> (1 :> Dir(493, 1))
                @@ (2 :> [Reg(420, 1, 2, 0, <<"new">>) EXCEPT !.xnlink = 1])]

\* the regular files a and b
SrcTwo ==
    [names |-> (S :> 1) @@ (<<"S", "a">> :> 2) @@ (<<"S", "b">> :> 3),
     inodes |-> (1 :> Dir(493, 1)) @@ (2 :> Reg(420, 1, 2, 0, <<"new">>))
                @@ (3 :> Reg(420, 1, 2, 0, <<"new">>))]

\* an empty D, and beside it the earlier snapshot P: P/a as the source has it,
\* P/b with the source's size, owner and mtime but other content
DstSnap ==
    [names |-> (D :> 1) @@ (<<"P">> :> 2) @@ (<<"P", "a">> :> 3)
               @@ (<<"P", "b">> :> 4),
     inodes |-> (1 :> Dir(493, 1)) @@ (2 :> Dir(493, 1))
                @@ (3 :> Reg(420, 1, 2, 0, <<"new">>))
                @@ (4 :> Reg(420, 1, 2, 0, <<"alt">>))]

\* an empty destination directory
DstEmpty == [names |-> (D :> 1), inodes |-> (1 :> Dir(493, 1))]

\* a symlink c
SrcSoft ==
    [names |-> (S :> 1) @@ (<<"S", "c">> :> 2),
     inodes |-> (1 :> Dir(493, 1)) @@ (2 :> Lnk(1, "a"))]

\* a directory c holding k where the source has the symlink c
DstSoftDir ==
    [names |-> (D :> 1) @@ (<<"D", "c">> :> 2) @@ (<<"D", "c", "k">> :> 3),
     inodes |-> (1 :> Dir(493, 1)) @@ (2 :> Dir(493, 1))
                @@ (3 :> Reg(420, 1, 1, 0, <<"k">>))]

\* a character device n, a fifo f, and a name g whose object has vanished
SrcNodes ==
    [names |-> (S :> 1) @@ (<<"S", "n">> :> 2) @@ (<<"S", "f">> :> 3)
               @@ (<<"S", "g">> :> 0),
     inodes |-> (1 :> Dir(493, 1))
                @@ (2 :> [Attr("chr", 384, 1, 1, 0, <<>>, "") EXCEPT !.rdev = 5])
                @@ (3 :> Attr("fifo", 420, 1, 1, 0, <<>>, ""))]

\* the device n with another device number
DstNodes ==
    [names |-> (D :> 1) @@ (<<"D", "n">> :> 2),
     inodes |-> (1 :> Dir(493, 1))
                @@ (2 :> [Attr("chr", 384, 1, 1, 0, <<>>, "") EXCEPT !.rdev = 4])]

\* a file a of 100 bytes with no disk block of its own (st_blocks = 0): its
\* data is kept in the inode, or the file system compresses it away
SrcSmall ==
    [names |-> (S :> 1) @@ (<<"S", "a">> :> 2),
     inodes |-> (1 :> Dir(493, 1))
                @@ (2 :> [Reg(420, 1, 1, 0, <<"tiny">>) EXCEPT !.tail = 100,
                                                               !.unalloc = 1])]

\* a and b hard-linked, with the flag of SrcFlag
SrcFlagPair ==
    [names |-> (S :> 1) @@ (<<"S", "a">> :> 2) @@ (<<"S", "b">> :> 2),
     inodes |-> (1 :> Dir(493, 1)) @@ (2 :> Reg(420, 1, 2, 1, <<"new">>))]

\* a file a and a file whose name is a.tmp
SrcTmp ==
    [names |-> (S :> 1) @@ (<<"S", "a">> :> 2) @@ (<<"S", "a.tmp">> :> 3),
     inodes |-> (1 :> Dir(493, 1)) @@ (2 :> Reg(420, 1, 2, 0, <<"new">>))
                @@ (3 :> Reg(420, 1, 2, 0, <<"mine">>))]

\* a, b and c hard-linked
SrcTriple ==
    [names |-> (S :> 1) @@ (<<"S", "a">> :> 2) @@ (<<"S", "b">> :> 2)
               @@ (<<"S", "c">> :> 2),
     inodes |-> (1 :> Dir(493, 1)) @@ (2 :> Reg(420, 1, 2, 0, <<"new">>))]

\* directories without owner access: d (0500) holding e, q (0755), r (0500)
SrcModes ==
    [names |-> (S :> 1) @@ (<<"S", "d">> :> 2) @@ (<<"S", "d", "e">> :> 3)
               @@ (<<"S", "q">> :> 4) @@ (<<"S", "r">> :> 5),
     inodes |-> (1 :> Dir(493, 1)) @@ (2 :> Dir(320, 1))
                @@ (3 :> Reg(384, 1, 2, 0, <<"e1">>))
                @@ (4 :> Dir(493, 1)) @@ (5 :> Dir(320, 1))]

\* no d, q with mode 0055, r with mode 0500
DstModes ==
    [names |-> (D :> 1) @@ (<<"D", "q">> :> 2) @@ (<<"D", "r">> :> 3),
     inodes |-> (1 :> Dir(493, 1)) @@ (2 :> Dir(45, 1)) @@ (3 :> Dir(320, 1))]

BoolOpts(force, safety, ask, noremove) ==
    {[ForceOpt |-> fo, SafetyOpt |-> sa, AskConfirmation |-> as, NoRemoveOpt |-> nr,
      UseCpFile |-> "", UseHLPath |-> ""]
     : fo \in force, sa \in safety, as \in ask, nr \in noremove}

\* nothing to remove at the destination: only -f matters
OptsCopy == BoolOpts(BOOLEAN, {TRUE}, {TRUE}, {FALSE})

\* every combination of -f, -s, -i and -o
OptsAll == BoolOpts(BOOLEAN, BOOLEAN, BOOLEAN, BOOLEAN)

\* -s on or off, with -i0 and without -f and -o
OptsPlain == BoolOpts({FALSE}, BOOLEAN, {FALSE}, {FALSE})

\* -x: the ignore file of every directory is .cpignore
OptsIgnore == {[o EXCEPT !.UseCpFile = ".cpignore"] : o \in OptsPlain}

\* -H P, with and without -f
OptsSnap == {[o EXCEPT !.UseHLPath = "P"] : o \in OptsCopy}

Worlds ==
    {[name |-> "fresh", sfs |-> SrcLinks, dfs |-> NoFS, opts |-> OptsCopy],
     [name |-> "stale", sfs |-> SrcOne, dfs |-> DstStale, opts |-> OptsAll],
     [name |-> "dir", sfs |-> SrcOne, dfs |-> DstDir, opts |-> OptsAll],
     [name |-> "alike", sfs |-> SrcOne, dfs |-> DstAlike, opts |-> OptsCopy],
     [name |-> "flag", sfs |-> SrcFlag, dfs |-> DstFlag, opts |-> OptsCopy],
     [name |-> "split", sfs |-> SrcPair, dfs |-> DstSplit, opts |-> OptsCopy],
     [name |-> "linkdir", sfs |-> SrcPair, dfs |-> DstLinkDir, opts |-> OptsAll],
     [name |-> "linktree", sfs |-> SrcPair, dfs |-> DstLinkTree, opts |-> OptsPlain],
     [name |-> "ignore", sfs |-> SrcIgnore, dfs |-> DstIgnore, opts |-> OptsIgnore],
     [name |-> "mount", sfs |-> SrcMount, dfs |-> DstMount, opts |-> OptsPlain],
     [name |-> "himount", sfs |-> OnDevs(SrcMount, HiDevA, HiDevB),
      dfs |-> OnDevs(DstMount, HiDevA, HiDevB), opts |-> OptsPlain],
     [name |-> "outlink", sfs |-> SrcOut, dfs |-> DstAlike, opts |-> OptsCopy],
     [name |-> "snap", sfs |-> SrcTwo, dfs |-> DstSnap, opts |-> OptsSnap],
     [name |-> "empty", sfs |-> SrcLinks, dfs |-> DstEmpty, opts |-> OptsCopy],
     [name |-> "softdir", sfs |-> SrcSoft, dfs |-> DstSoftDir, opts |-> OptsAll],
     [name |-> "nodes", sfs |-> SrcNodes, dfs |-> DstNodes, opts |-> OptsCopy],
     [name |-> "small", sfs |-> SrcSmall, dfs |-> DstEmpty, opts |-> OptsPlain],
     [name |-> "flaglink", sfs |-> SrcFlagPair, dfs |-> DstEmpty, opts |-> OptsPlain],
     [name |-> "modes", sfs |-> SrcModes, dfs |-> DstModes, opts |-> OptsPlain],
     [name |-> "triple", sfs |-> SrcTriple, dfs |-> DstEmpty, opts |-> OptsPlain],
     [name |-> "tmp", sfs |-> SrcTmp, dfs |-> DstEmpty, opts |-> OptsPlain]}

\* variant of ZeroCnt: the count of copied items starts at one
ZeroCntOff ==
    [SourceBytes |-> 0, SourceItems |-> 0, CopiedItems |-> 1, ReadBytes |-> 0,
     WriteBytes |-> 0, RemovedItems |-> 0]

ZeroCnt ==
    [SourceBytes |-> 0, SourceItems |-> 0, CopiedItems |-> 0, ReadBytes |-> 0,
     WriteBytes |-> 0, RemovedItems |-> 0]

-----------------------------------------------------------------------------
(* The state machine *)

\* no directory pass outside a copy run is being looked at
NoList == [stage |-> "none", list |-> <<>>, lines |-> 0, ign |-> {}, src |-> {}, dst |-> {},
           name |-> "", n |-> 0, val |-> 0, old |-> <<>>]

\* no threaded process outside a copy run is being looked at
NoProc == [P_WEXIT |-> FALSE, p_nthreads |-> 0, lwp |-> <<>>]

\* no call of WildCmp outside a copy run is being looked at
NoWild == [w |-> "", s |-> "", called |-> FALSE, res |-> 0]

\* the state of the copy program when main starts, in one of the worlds W
InitRun(W) ==
    /\ \E w \in W : \E o \in w.opts : \E rev \in BOOLEAN :
        /\ opt = [world |-> w.name, rev |-> rev] @@ o
        /\ sfs = w.sfs
        /\ dfs = w.dfs
    /\ dumask = 0
    /\ stack = <<>>
    /\ hltable = <<>>
    /\ cnt = ZeroCnt
    /\ phase = "main"
    /\ ret = 0
    /\ exitcode = -1
    /\ faults = 0
    /\ run = 1
    /\ prev = [ret |-> -1, dfs |-> dfs]
    /\ errs = 0
    /\ answer = ""

Init == InitRun(Worlds) /\ wcmp = NoWild /\ alst = NoList /\ proc = NoProc /\ mplock = 0

\* the effect of one step's outcome on the state
Apply(o) ==
    /\ dfs' = o.dfs
    /\ hltable' = o.hlt
    /\ cnt' = o.cnt
    /\ dumask' = o.um
    /\ faults' = faults + o.nf
    /\ errs' = errs + o.ne
    /\ answer' = o.ans
    /\ LET n == Len(stack)
       IN  CASE o.kind = "goto" ->
                   /\ stack' = [stack EXCEPT ![n] = o.frame]
                   /\ UNCHANGED <<ret, phase>>
             [] o.kind = "call" ->
                   /\ stack' = Append([stack EXCEPT ![n] = o.frame], o.callee)
                   /\ UNCHANGED <<ret, phase>>
             [] o.kind = "ret" ->
                   IF n = 1
                   THEN /\ stack' = <<>>
                        /\ ret' = o.val
                        /\ phase' = "returned"
                   ELSE /\ stack' = [SubSeq(stack, 1, n - 1) EXCEPT
                                       ![n - 1].r = IF stack[n].fn = "DoCopy"
                                                    THEN @ + o.val ELSE @]
                        /\ UNCHANGED <<ret, phase>>
    /\ UNCHANGED <<opt, sfs, exitcode, run, prev, aside>>

At(fn, pc) == phase = "run" /\ Top.fn = fn /\ Top.pc = pc

\* main: the top-level call DoCopy(src, dst, (dev_t)-1, (dev_t)-1)
MainCall ==
    /\ phase = "main"
    /\ stack' = <<DoCopyFrame(S, D, NoDev, NoDev)>>
    /\ phase' = "run"
    /\ UNCHANGED <<opt, sfs, dfs, dumask, hltable, cnt, ret, exitcode, faults, run, prev, errs,
                   answer, aside>>

\* variant of ExitCode: exit(i)
ExitCodeRaw(i) == i

\* main: exit((i == 0) ? 0 : 1)
ExitCode(i) == IF i = 0 THEN 0 ELSE 1

MainExit ==
    /\ phase = "returned"
    /\ exitcode' = ExitCode(ret)
    /\ phase' = "exited"
    /\ UNCHANGED <<opt, sfs, dfs, dumask, stack, hltable, cnt, ret, faults, run, prev, errs,
                   answer, aside>>

\* the program is run a second time on the same two trees
Rerun ==
    /\ phase = "exited"
    /\ run < MaxRuns
    /\ run' = run + 1
    /\ prev' = [ret |-> ret, dfs |-> dfs]
    /\ errs' = 0
    /\ phase' = "main"
    /\ hltable' = <<>>
    /\ cnt' = ZeroCnt
    /\ dumask' = 0
    /\ ret' = 0
    /\ exitcode' = -1
    /\ UNCHANGED <<opt, sfs, dfs, stack, faults, answer, aside>>

DoCopyStartStep == At("DoCopy", "start") /\ \E o \in DoCopyStart(Top) : Apply(o)
DoCopyXlinkStep == At("DoCopy", "xlink") /\ \E o \in DoCopyXlink(Top) : Apply(o)
DoCopyCheckStep == At("DoCopy", "check") /\ \E o \in DoCopyCheck(Top) : Apply(o)
DoCopyDirEnterStep ==
    /\ At("DoCopy", "dispatch") /\ Top.st1.kind = "dir"
    /\ \E o \in DoCopyDirEnter(Top) : Apply(o)
DoCopySrcNextStep ==
    /\ At("DoCopy", "srcloop") /\ ~Top.noLoop /\ Top.left # {}
    /\ \E o \in DoCopySrcNext(Top) : Apply(o)
DoCopySrcDoneStep ==
    /\ At("DoCopy", "srcloop") /\ (Top.noLoop \/ Top.left = {})
    /\ \E o \in DoCopySrcDone(Top) : Apply(o)
DoCopyDstNextStep ==
    /\ At("DoCopy", "dstloop") /\ ~Top.noLoop /\ Top.left # {}
    /\ \E o \in DoCopyDstNext(Top) : Apply(o)
DoCopyDstDoneStep ==
    /\ At("DoCopy", "dstloop") /\ (Top.noLoop \/ Top.left = {})
    /\ \E o \in DoCopyDstDone(Top) : Apply(o)
DoCopyDirFixStep == At("DoCopy", "dirfix") /\ \E o \in DoCopyDirFix(Top) : Apply(o)
DoCopyRegOpenStep ==
    /\ At("DoCopy", "dispatch") /\ Top.st1.kind = "reg"
    /\ \E o \in DoCopyRegOpen(Top) : Apply(o)
DoCopyRegBlockStep ==
    /\ At("DoCopy", "copy") /\ Top.off < Len(Node(sfs, Top.spath).data)
    /\ \E o \in DoCopyRegBlock(Top) : Apply(o)
DoCopyRegUtimesStep ==
    /\ At("DoCopy", "copy") /\ Top.off >= Len(Node(sfs, Top.spath).data)
    /\ \E o \in DoCopyRegUtimes(Top) : Apply(o)
DoCopyRegChownStep == At("DoCopy", "chown") /\ \E o \in DoCopyRegChown(Top) : Apply(o)
DoCopyRegChmodStep == At("DoCopy", "chmod") /\ \E o \in DoCopyRegChmod(Top) : Apply(o)
DoCopyRegRenameStep == At("DoCopy", "rename") /\ \E o \in DoCopyRegRename(Top) : Apply(o)
DoCopySymlinkStep ==
    /\ At("DoCopy", "dispatch") /\ Top.st1.kind = "lnk"
    /\ \E o \in DoCopySymlink(Top) : Apply(o)
DoCopyDeviceStep ==
    /\ At("DoCopy", "dispatch") /\ Top.st1.kind \in {"chr", "blk"}
    /\ \E o \in DoCopyDevice(Top) : Apply(o)
DoCopyOtherStep ==
    /\ At("DoCopy", "dispatch") /\ Top.st1.kind \notin {"dir", "reg", "lnk", "chr", "blk"}
    /\ \E o \in DoCopyOther(Top) : Apply(o)
RemoveRecurStartStep ==
    At("RemoveRecur", "start") /\ \E o \in RemoveRecurStart(Top) : Apply(o)
RemoveRecurNextStep ==
    /\ At("RemoveRecur", "loop") /\ Top.left # {}
    /\ \E o \in RemoveRecurNext(Top) : Apply(o)
RemoveRecurRmdirStep ==
    /\ At("RemoveRecur", "loop") /\ Top.left = {}
    /\ \E o \in RemoveRecurRmdir(Top) : Apply(o)

Next ==
    \/ MainCall
    \/ MainExit
    \/ Rerun
    \/ DoCopyStartStep
    \/ DoCopyXlinkStep
    \/ DoCopyCheckStep
    \/ DoCopyDirEnterStep
    \/ DoCopySrcNextStep
    \/ DoCopySrcDoneStep
    \/ DoCopyDstNextStep
    \/ DoCopyDstDoneStep
    \/ DoCopyDirFixStep
    \/ DoCopyRegOpenStep
    \/ DoCopyRegBlockStep
    \/ DoCopyRegUtimesStep
    \/ DoCopyRegChownStep
    \/ DoCopyRegChmodStep
    \/ DoCopyRegRenameStep
    \/ DoCopySymlinkStep
    \/ DoCopyDeviceStep
    \/ DoCopyOtherStep
    \/ RemoveRecurStartStep
    \/ RemoveRecurNextStep
    \/ RemoveRecurRmdirStep

Spec == Init /\ [][Next]_vars

TypeOK ==
    /\ phase \in {"main", "run", "returned", "exited"}
    /\ faults \in 0..MaxFaults

-----------------------------------------------------------------------------
(* Vocabulary of the properties *)

\* the destination path that mirrors a source path, and back
Mirror(p) == D \o Tail(p)
Unmirror(q) == S \o Tail(q)

\* the objects of the source tree
SrcPaths == {p \in DOMAIN sfs.names : Exists(sfs, p)}

\* p, or a directory above it, matches the ignore list of its directory
Ignored(p) ==
    \E k \in 2..Len(p) :
        AddList(LoadIgnore(<<>>, SubSeq(p, 1, k - 1)).list, p[k], TagSource).val = 1

\* the top-level DoCopy has returned 0
Returned0 == phase = "returned" /\ ret = 0

\* the regular file p is mirrored with its content and metadata
SameFile(p) ==
    LET q == Mirror(p)
    IN  /\ KindOf(dfs, q) = "reg"
        /\ Node(dfs, q).data = Node(sfs, p).data
        /\ Node(dfs, q).perm = Node(sfs, p).perm
        /\ Node(dfs, q).uid = Node(sfs, p).uid
        /\ Node(dfs, q).gid = Node(sfs, p).gid
        /\ Node(dfs, q).mtime = Node(sfs, p).mtime
        /\ Node(dfs, q).flags = Node(sfs, p).flags

\* when the run started the destination held, at the mirror of p, a file of
\* other content that the no-change check cannot tell from p
Lookalike(p) ==
    LET q == Mirror(p)
        st1 == Lstat(sfs, p)
        st2 == Lstat(prev.dfs, q)
    IN  /\ st2.kind = "reg"
        /\ Node(prev.dfs, q).data # Node(sfs, p).data
        /\ st1.perm = st2.perm /\ st1.flags = st2.flags
        /\ NoChange(st1, st2)

\* the objects at and below q, by path
Sub(fs, q) ==
    [x \in {y \in DOMAIN fs.names : IsUnder(y, q) /\ Exists(fs, y)} |-> Node(fs, x)]

\* DoCopy is past its two lstat calls for a regular file whose destination
\* was a regular file
Replacing ==
    /\ phase = "run" /\ Top.fn = "DoCopy" /\ Top.pc # "start"
    /\ Top.st1.kind = "reg" /\ Top.st2Valid /\ Top.st2.kind = "reg"

\* the content of the file DoCopy found at dpath: that of the file the run
\* started with or, for a file this run has put there, that of a source file
FoundData(f) ==
    (IF Exists(prev.dfs, f.dpath) THEN {Node(prev.dfs, f.dpath).data} ELSE {})
        \cup {sfs.inodes[i].data : i \in {j \in DOMAIN sfs.inodes : sfs.inodes[j].kind = "reg"}}

\* dpath of frame f is the whole file found there, or the whole source file
OldOrNew(f) ==
    /\ KindOf(dfs, f.dpath) = "reg"
    /\ Node(dfs, f.dpath).data \in FoundData(f) \cup {Node(sfs, f.spath).data}

\* safety is on and a destination directory stands where the source has a
\* non-directory
Refused ==
    /\ opt.SafetyOpt
    /\ \E p \in SrcPaths : KindOf(sfs, p) # "dir" /\ KindOf(dfs, Mirror(p)) = "dir"

-----------------------------------------------------------------------------
(* Properties *)

\* C1, as stated: if the top-level DoCopy returns 0, every regular file of S
\* that no ignore list excludes is a regular file at the mirrored path of D,
\* with equal content, mode, uid, gid, mtime and flags. Taken here on the
\* runs in which no system call fails and the destination held no look-alike
\* of a source file; it fails even there.
C1_Mirrored ==
    (Returned0 /\ faults = 0) =>
        \A p \in SrcPaths :
            (KindOf(sfs, p) = "reg" /\ ~Ignored(p) /\ ~Lookalike(p)) => SameFile(p)

\* C2, as stated: in every state of a DoCopy that replaces an existing
\* destination file, dpath is the complete old file or the complete new file,
\* never partly written and never absent.
C2_OldOrNew == Replacing => OldOrNew(Top)

\* C2, amended: dpath is never partly written; it is the complete old file or
\* the complete new file, or it is absent, and absent only for a source file
\* with more than one link (the hardlink probe removes dpath before it links).
C2_NeverPartial ==
    Replacing => (OldOrNew(Top) \/ (~Exists(dfs, Top.dpath) /\ Top.st1.nlink > 1))

\* C2: the copy of a singly linked file is complete in the temp file while
\* dpath still holds the old content
C2_Witness ==
    /\ Replacing /\ Top.pc = "rename" /\ Top.st1.nlink = 1
    /\ Node(dfs, Top.dpath).data # Node(sfs, Top.spath).data
    /\ KindOf(dfs, TmpPath(Top.dpath)) = "reg"
    /\ Node(dfs, TmpPath(Top.dpath)).data = Node(sfs, Top.spath).data

\* C3, as stated: if the top-level DoCopy returns 0 and no-remove is not set,
\* every path that was in D, has no counterpart in S and matches no ignore
\* list is absent from D. Taken here on the runs in which no system call
\* fails and no confirmation is asked for; it fails even there.
C3_Pruned ==
    (Returned0 /\ ~opt.NoRemoveOpt /\ ~opt.AskConfirmation /\ faults = 0) =>
        \A q \in DOMAIN prev.dfs.names :
            (/\ Exists(prev.dfs, q)
             /\ ~Exists(sfs, Unmirror(q))
             /\ ~Ignored(Unmirror(q))) => ~Exists(dfs, q)

\* C4, as stated: if the top-level DoCopy returns 0, the mirrored paths of
\* every group of source paths that share an inode share one destination
\* inode. Taken here on the runs in which no system call is made to fail.
C4_OneInode ==
    (Returned0 /\ faults = 0) =>
        \A p1, p2 \in SrcPaths :
            (KindOf(sfs, p1) = "reg" /\ sfs.names[p1] = sfs.names[p2]) =>
                /\ Exists(dfs, Mirror(p1))
                /\ Exists(dfs, Mirror(p2))
                /\ dfs.names[Mirror(p1)] = dfs.names[Mirror(p2)]

\* C5, as stated: if the top-level DoCopy returns 0, every symlink of S is a
\* symlink with the same target text at the mirrored path of D. Taken here
\* on the runs with safety off in which no system call is made to fail.
C5_SameTarget ==
    (Returned0 /\ ~opt.SafetyOpt /\ faults = 0) =>
        \A p \in SrcPaths :
            KindOf(sfs, p) = "lnk" =>
                /\ KindOf(dfs, Mirror(p)) = "lnk"
                /\ Node(dfs, Mirror(p)).target = Node(sfs, p).target

\* C6, as stated: a second run right after a first one copies nothing,
\* removes nothing and returns 0. Taken here on the runs without force and
\* without confirmation prompts, in which no system call is made to fail and
\* the first run returned 0.
C6_Idempotent ==
    (/\ phase = "returned" /\ run = 2 /\ prev.ret = 0
     /\ ~opt.ForceOpt /\ ~opt.AskConfirmation /\ faults = 0) =>
        (cnt.CopiedItems = 0 /\ cnt.RemovedItems = 0 /\ ret = 0)

\* C7, as stated: every failed create, open, read, write, link, unlink or
\* rename makes the value DoCopy returns, up to the top-level call, greater
\* than zero.
C7_Counted == (phase = "returned" /\ errs > 0) => ret > 0

\* C8: the exit code is 0 if and only if the top-level DoCopy returned 0, and
\* it is 1 otherwise.
C8_ExitCode == phase = "exited" => exitcode = (IF ret = 0 THEN 0 ELSE 1)

\* C8: the process has exited after a DoCopy that returned more than 1
C8_Witness == phase = "exited" /\ ret > 1 /\ exitcode = 1

\* C9, as stated: with safety set, a destination directory that stands where
\* the source has a non-directory is left as it was, with everything below
\* it.
C9_Untouched ==
    opt.SafetyOpt =>
        \A p \in SrcPaths :
            (KindOf(sfs, p) # "dir" /\ KindOf(prev.dfs, Mirror(p)) = "dir") =>
                Sub(dfs, Mirror(p)) = Sub(prev.dfs, Mirror(p))

\* C10, as stated: with safety set, the refusal to replace a destination
\* directory by a source non-directory is counted: DoCopy returns non-zero
\* and the run ends with exit code 1. Taken here on the runs in which no
\* system call is made to fail.
C10_RefusalCounted ==
    (phase \in {"returned", "exited"} /\ Refused /\ faults = 0) =>
        (ret # 0 /\ (phase = "exited" => exitcode = 1))

\* the objects at and below q are all on the device of the directory holding q
OneDevice(fs, q) ==
    \A y \in DOMAIN Sub(fs, q) : Node(fs, y).dev = Node(fs, Parent(q)).dev

\* C11, as stated: with safety off and removals permitted and confirmed, a
\* destination directory tree that stands where the source has a regular file
\* is gone after DoCopy, and the path is a regular file with the source's
\* content. Taken here on the runs in which no system call is made to fail,
\* for a tree that lies on one device with the directory holding it.
C11_TreeReplaced ==
    (/\ phase = "returned" /\ ~opt.SafetyOpt /\ ~opt.NoRemoveOpt
     /\ ~opt.AskConfirmation /\ faults = 0) =>
        \A p \in SrcPaths :
            (/\ KindOf(sfs, p) = "reg" /\ ~Ignored(p)
             /\ KindOf(prev.dfs, Mirror(p)) = "dir"
             /\ OneDevice(prev.dfs, Mirror(p))) =>
                /\ DOMAIN Sub(dfs, Mirror(p)) = {Mirror(p)}
                /\ KindOf(dfs, Mirror(p)) = "reg"
                /\ Node(dfs, Mirror(p)).data = Node(sfs, p).data

\* C12, as stated: with no-remove set, every entry that was in D before the
\* run is still in D after it. Taken here on the runs in which no system
\* call is made to fail.
C12_StillPresent ==
    (phase = "returned" /\ opt.NoRemoveOpt /\ faults = 0) =>
        \A q \in DOMAIN prev.dfs.names : Exists(prev.dfs, q) => Exists(dfs, q)

\* shell-style match of the name s against the pattern w: * stands for any
\* run of characters, ? for any one character
RECURSIVE Glob(_, _)
Glob(w, s) ==
    IF w = "" THEN s = ""
    ELSE IF First(w) = "*" THEN Glob(Tail(w), s) \/ (s # "" /\ Glob(w, Tail(s)))
    ELSE IF First(w) = "?" THEN s # "" /\ Glob(Tail(w), Tail(s))
    ELSE s # "" /\ First(s) = First(w) /\ Glob(Tail(w), Tail(s))

\* the patterns of the ignore file of source directory dir
Patterns(dir) ==
    LET fpath == Child(dir, opt.UseCpFile)
    IN  IF opt.UseCpFile # "" /\ KindOf(sfs, fpath) = "reg"
        THEN {l \in {Node(sfs, fpath).data[i] : i \in 1..Len(Node(sfs, fpath).data)} :
                l # "" /\ First(l) # "#"}
        ELSE {}

\* name is the ignore file's own name, equals a pattern or matches one
Matches(dir, name) ==
    /\ opt.UseCpFile # ""
    /\ \/ name = opt.UseCpFile
       \/ \E w \in Patterns(dir) : w = name \/ Glob(w, name)

\* DoCopy is about to read the next name of its source or destination directory
InLoop(pc) == At("DoCopy", pc) /\ ~Top.noLoop /\ Top.left # {}

\* C13: with an ignore file configured, the source loop calls DoCopy for a
\* name exactly if the name is not the ignore file's own, equals no pattern
\* and matches no wildcard pattern; the prune loop calls RemoveRecur for a
\* name exactly if the same holds and the source directory does not list the
\* name, which is what both loops do for every name without an ignore file.
C13_IgnoreRule ==
    [][/\ InLoop("srcloop") =>
            (Len(stack') > Len(stack)
                <=> ~Matches(Top.spath, NextName(Top.left)))
       /\ InLoop("dstloop") =>
            (Len(stack') > Len(stack)
                <=> (/\ ~Matches(Top.spath, NextName(Top.left))
                     /\ NextName(Top.left) \notin Entries(sfs, Top.spath)))]_vars

\* C13: a run with an ignore file has ended: a is copied and z pruned, the
\* ignored b.o is not copied, the ignored k.o is not pruned, the ignored x is
\* as it was and the ignore file itself is not copied
C13_Witness ==
    /\ Returned0 /\ opt.UseCpFile = ".cpignore" /\ faults = 0 /\ run = 1
    /\ SameFile(<<"S", "a">>) /\ ~Exists(dfs, <<"D", "z">>)
    /\ ~Exists(dfs, <<"D", "b.o">>) /\ Exists(dfs, <<"D", "k.o">>)
    /\ Node(dfs, <<"D", "x">>).data = <<"old">>
    /\ ~Exists(dfs, <<"D", ".cpignore">>)

\* the names the source loop of frame f has passed to DoCopy
Processed(f) ==
    {f.list[k].name : k \in {i \in 1..Len(f.list) : f.list[i].value = TagSource}}

\* C14: when the prune loop of a directory calls RemoveRecur, every name of
\* the source directory has been through the source loop (passed to its
\* recursive DoCopy, or skipped as ignored), and the name that is pruned is
\* not a name of the source listing.
C14_PruneAfterSource ==
    [][(InLoop("dstloop") /\ Len(stack') > Len(stack)) =>
            /\ \A n \in Entries(sfs, Top.spath) :
                   n \in Processed(Top) \/ Matches(Top.spath, n)
            /\ NextName(Top.left) \notin Entries(sfs, Top.spath)]_vars

\* C14: the prune loop of a directory with source entries has called
\* RemoveRecur for a destination entry
C14_Witness ==
    /\ phase = "run" /\ Len(stack) >= 2
    /\ Top.fn = "RemoveRecur" /\ Top.pc = "start" /\ Exists(dfs, Top.dpath)
    /\ stack[Len(stack) - 1].pc = "dstloop"
    /\ Processed(stack[Len(stack) - 1]) # {}

\* the directory of DoCopy frame f is on another device than the directory
\* holding it, on the source side or on the destination side
Crossing(f) ==
    /\ Len(f.spath) > 1
    /\ \/ Node(sfs, f.spath).dev # Node(sfs, Parent(f.spath)).dev
       \/ Node(dfs, f.dpath).dev # Node(dfs, Parent(f.dpath)).dev

\* C15, as stated: a DoCopy whose directory is on another device than its
\* parent directory, on the source or on the destination side, makes no
\* recursive DoCopy call for a child and no RemoveRecur call for a
\* destination child.
C15_NoDescent ==
    [][(/\ phase = "run" /\ Top.fn = "DoCopy" /\ Top.pc \in {"srcloop", "dstloop"}
        /\ Len(stack') > Len(stack)) => ~Crossing(Top)]_vars

\* index of the DoCopy frame that called the RemoveRecur now running
Caller == CHOOSE k \in 1..Len(stack) :
              /\ stack[k].fn = "DoCopy"
              /\ \A j \in (k + 1)..Len(stack) : stack[j].fn = "RemoveRecur"

\* the device the RemoveRecur now running was called for: the ddevNo of the
\* call site or, if that is unset, the device of the first object
RemoveDev ==
    IF stack[Caller].ddevNo = NoDev
    THEN Lstat(dfs, stack[Caller + 1].dpath).dev
    ELSE stack[Caller].ddevNo

\* C16, as stated: a step of RemoveRecur that removes an object, or descends
\* into a directory, does so only for an object on the device RemoveRecur was
\* called for.
C16_OneDevice ==
    [][(/\ phase = "run" /\ Top.fn = "RemoveRecur"
        /\ \/ Exists(dfs, Top.dpath) /\ ~Exists(dfs', Top.dpath)
           \/ Len(stack') > Len(stack)) =>
            Node(dfs, Top.dpath).dev = RemoveDev]_vars

\* frame f is a DoCopy of a regular file whose destination is a regular file
\* of the same size, uid, gid, mode and flags, with force off
SameButMtime(f) ==
    /\ f.fn = "DoCopy" /\ ~opt.ForceOpt
    /\ f.st1.kind = "reg" /\ f.st2Valid /\ f.st2.kind = "reg"
    /\ f.st1.size = f.st2.size /\ f.st1.uid = f.st2.uid /\ f.st1.gid = f.st2.gid
    /\ f.st1.perm = f.st2.perm /\ f.st1.flags = f.st2.flags

\* C17, as stated: a DoCopy of a regular file that differs from its
\* destination only in mtime, with force off, never goes on to copy the file.
C17_NoCopy ==
    \A k \in 1..Len(stack) :
        (SameButMtime(stack[k]) /\ stack[k].st1.mtime # stack[k].st2.mtime) =>
            stack[k].pc \in {"start", "xlink", "check"}

\* C17, amended: for a regular file whose destination has the same size, uid,
\* gid, mode and flags, with force off, the no-change check ends DoCopy
\* without a copy exactly if the mtime is the same too; a file that differs
\* only in mtime goes on to be copied.
C17_MtimeDecides ==
    [][(At("DoCopy", "check") /\ SameButMtime(Top)) =>
            IF Top.st1.mtime = Top.st2.mtime
            THEN Len(stack') < Len(stack) /\ cnt'.CopiedItems = cnt.CopiedItems
            ELSE Len(stack') = Len(stack) /\ Top'.pc = "dispatch"]_vars

\* C17: a run without force has ended in which the file a, which differed from
\* D/a in mtime but not in size, uid, gid, mode or flags, was copied
C17_Witness ==
    /\ Returned0 /\ run = 1 /\ faults = 0 /\ ~opt.ForceOpt
    /\ SameButMtime([DoCopyFrame(<<"S", "a">>, <<"D", "a">>, NoDev, NoDev) EXCEPT
                        !.st1 = Lstat(sfs, <<"S", "a">>),
                        !.st2 = Lstat(prev.dfs, <<"D", "a">>),
                        !.st2Valid = Exists(prev.dfs, <<"D", "a">>)])
    /\ Lstat(sfs, <<"S", "a">>).mtime # Lstat(prev.dfs, <<"D", "a">>).mtime
    /\ Lstat(sfs, <<"S", "a">>).nlink = 1
    /\ cnt.CopiedItems = 1 /\ SameFile(<<"S", "a">>)

\* st_nlink of the source inode i
SrcLinkCount(i) == NLinks(sfs, i) + sfs.inodes[i].xnlink

HLCounterpart(dpath) == <<opt.UseHLPath>> \o Tail(dpath)

\* the counterpart of frame f's file under the -H path has the size, uid, gid
\* and mtime of the source file and, with force on, its content
HLSame(f) ==
    LET hp == HLCounterpart(f.dpath)
    IN  /\ opt.UseHLPath # "" /\ Exists(dfs, hp)
        /\ Lstat(dfs, hp).size = f.st1.size /\ Lstat(dfs, hp).uid = f.st1.uid
        /\ Lstat(dfs, hp).gid = f.st1.gid /\ Lstat(dfs, hp).mtime = f.st1.mtime
        /\ opt.ForceOpt =>
               (KindOf(dfs, hp) = "reg" /\ Node(dfs, hp).data = Node(sfs, f.spath).data)

Scenario1Done ==
    /\ phase = "returned" /\ run = 1 /\ faults = 0
    /\ sfs = SrcLinks /\ prev.dfs \in {DstEmpty, NoFS}

\* C20, as stated: the run over scenario 1 into an empty destination ends
\* with copied-items = 4, source-items = 5 and removed-items = 0.
C20_Counters ==
    Scenario1Done =>
        (cnt.CopiedItems = 4 /\ cnt.SourceItems = 5 /\ cnt.RemovedItems = 0)

\* C20, amended: the run ends with copied-items = 5 (a, b, c, e and the
\* directory d; 6 if the destination directory itself had to be made),
\* source-items = 4 (a, b, c and e: directories are not counted) and
\* removed-items = 0.
C20_CountersOfCode ==
    Scenario1Done =>
        /\ cnt.CopiedItems = (IF prev.dfs = NoFS THEN 6 ELSE 5)
        /\ cnt.SourceItems = 4
        /\ cnt.RemovedItems = 0

\* C20: the run over scenario 1 into the empty directory D has returned 0, D
\* mirrors S, and a and b are one inode
C20_Witness ==
    /\ Scenario1Done /\ ret = 0 /\ prev.dfs = DstEmpty
    /\ SameFile(<<"S", "a">>) /\ SameFile(<<"S", "d", "e">>)
    /\ dfs.names[<<"D", "a">>] = dfs.names[<<"D", "b">>]
    /\ KindOf(dfs, <<"D", "c">>) = "lnk"
    /\ cnt.CopiedItems = 5 /\ cnt.SourceItems = 4

\* the destination objects that the step now taken removes
Gone == {q \in DOMAIN dfs.names : Exists(dfs, q) /\ ~Exists(dfs', q)}

\* C21, as stated: a step of RemoveRecur adds to removed-items exactly the
\* number of destination objects it removes, and leaves removed-items alone
\* when it removes nothing.
C21_RemovedCounted ==
    [][(phase = "run" /\ Top.fn = "RemoveRecur")
        => cnt'.RemovedItems = cnt.RemovedItems + Cardinality(Gone)]_vars

\* C22, as stated: no step of a run makes any of the six counters smaller.
\* The counters are int64_t; sums of this size do not wrap, so the signed
\* 64-bit total is the integer sum.
C22_Monotone ==
    [][run' = run => \A k \in DOMAIN cnt : cnt'[k] >= cnt[k]]_vars

\* C23, as stated: a regular-file copy that fails after its temp file was
\* opened (read or write error, failed rename) leaves no temp file behind
\* when DoCopy returns, and DoCopy returns a count of at least 1.
C23_TempCleaned ==
    [][(/\ phase = "run" /\ Top.fn = "DoCopy" /\ Top.pc \in {"copy", "rename"}
        /\ errs' > errs)
       => /\ Len(stack') = Len(stack) - 1
          /\ stack'[Len(stack')].r > stack[Len(stack')].r
          /\ ~Exists(dfs', TmpPath(Top.dpath))]_vars

\* C24: a DoCopy whose source path cannot be lstat'ed returns 0 at once and
\* leaves the destination tree, the counters and the hardlink table as they
\* were.
C24_VanishedSource ==
    [][(/\ phase = "run" /\ Top.fn = "DoCopy" /\ Top.pc = "start"
        /\ ~Exists(sfs, Top.spath))
       => /\ dfs' = dfs /\ cnt' = cnt /\ hltable' = hltable /\ errs' = errs
          /\ Len(stack') = Len(stack) - 1
          /\ IF Len(stack) = 1 THEN ret' = 0
             ELSE stack'[Len(stack')].r = stack[Len(stack')].r]_vars

\* C24: the loop over the source directory has called DoCopy for a name whose
\* lstat fails, and the call has returned
C24_Witness ==
    /\ phase = "run" /\ Top.fn = "DoCopy" /\ Top.pc = "srcloop"
    /\ \E n \in Entries(sfs, Top.spath) \ Top.left :
           ~Exists(sfs, Child(Top.spath, n))

\* source inode i is a regular file with more than one link, and the step now
\* taken is the entry of a DoCopy for one of its paths (a sighting of i)
Sighting(i) ==
    /\ phase = "run" /\ Top.fn = "DoCopy" /\ Top.pc = "start"
    /\ Lstat(sfs, Top.spath).ino = i
    /\ Lstat(sfs, Top.spath).kind = "reg" /\ Lstat(sfs, Top.spath).nlink > 1

\* the step now taken is the return of a DoCopy for a path of source inode i
Leaving(i) ==
    /\ phase = "run" /\ Top.fn = "DoCopy" /\ Len(stack') < Len(stack)
    /\ Lstat(sfs, Top.spath).ino = i
    /\ Lstat(sfs, Top.spath).kind = "reg" /\ Lstat(sfs, Top.spath).nlink > 1

\* C25, as stated: the hardlink entry of a source inode appears with count 1,
\* its count grows by 1 at each later sighting of the inode and at no other
\* step, and when a DoCopy for the inode returns the entry is gone if the
\* count has reached the source's nlink or the link or copy was not made.
C25_Lifecycle ==
    [][\A i \in DOMAIN sfs.inodes :
        LET h == hltlookup(hltable, i)
            k == hltlookup(hltable', i)
        IN  /\ (h = 0 /\ k # 0) => hltable'[k].nlinked = 1
            /\ (h # 0 /\ k # 0) =>
                   hltable'[k].nlinked = hltable[h].nlinked + B2N(Sighting(i))
            /\ (Leaving(i) /\ k # 0) =>
                   /\ hltable'[k].nlinked < Lstat(sfs, Top.spath).nlink
                   /\ KindOf(dfs', Top.dpath) = "reg"]_vars

\* C26, as stated: a DoCopy whose link failed with EMLINK and which returns 0
\* leaves the destination path as a regular file with the source's content.
C26_CopiedAfterEmlink ==
    [][(/\ phase = "run" /\ Top.fn = "DoCopy" /\ Top.tryrelink
        /\ Len(stack') < Len(stack)
        /\ stack'[Len(stack')].r = stack[Len(stack')].r)
       => /\ KindOf(dfs', Top.dpath) = "reg"
          /\ Node(dfs', Top.dpath).data = Node(sfs, Top.spath).data]_vars

\* C27, as stated: the no-change check of a DoCopy for a regular source file
\* with a valid destination stat ends the call with 0 and without a change
\* at the destination exactly when force is off and mode, flags, size, uid,
\* gid and mtime of the two stat results are equal (no digest or content-id
\* check is enabled).
C27_SkipIff ==
    [][(/\ phase = "run" /\ Top.fn = "DoCopy" /\ Top.pc = "check"
        /\ Top.st1.kind = "reg" /\ Top.st2Valid)
       => ((/\ Len(stack') < Len(stack)
            /\ stack'[Len(stack')].r = stack[Len(stack')].r
            /\ dfs' = dfs)
           <=> (SameButMtime(Top) /\ Top.st1.mtime = Top.st2.mtime))]_vars

\* C28: once the content is in the temp file, the steps of the regular-file
\* copy come in this order and do this much: utimes sets atime and mtime of
\* the temp file to the source mtime, then chown sets its owner, then chmod
\* its mode, then the temp file is renamed over dpath; the source flags are
\* put on dpath in the step of a successful rename and not when it fails.
C28_CopyOrder ==
    [][(/\ phase = "run" /\ Top.fn = "DoCopy" /\ Top.st1.kind = "reg"
        /\ Top.pc \in {"copy", "chown", "chmod", "rename"}
        /\ Top.pc = "copy" => Top.off >= Len(Node(sfs, Top.spath).data))
       => LET f == Top
              tmp == TmpPath(f.dpath)
              i == dfs.names[tmp]
          IN  CASE f.pc = "copy" ->
                       /\ Node(dfs, tmp).data = Node(sfs, f.spath).data
                       /\ Top'.pc = "chown"
                       /\ dfs' \in {dfs, [dfs EXCEPT !.inodes[i].atime = f.st1.mtime,
                                                     !.inodes[i].mtime = f.st1.mtime]}
                [] f.pc = "chown" ->
                       /\ Top'.pc = "chmod"
                       /\ dfs' \in {dfs, [dfs EXCEPT !.inodes[i].uid = f.st1.uid,
                                                     !.inodes[i].gid = f.st1.gid]}
                [] f.pc = "chmod" ->
                       /\ Top'.pc = "rename"
                       /\ dfs' \in {dfs, [dfs EXCEPT !.inodes[i].perm = f.st1.perm]}
                [] f.pc = "rename" ->
                       IF Exists(dfs', tmp)
                       THEN dfs' \in {dfs, Chflags(dfs, f.dpath, f.st2.flags).fs}
                       ELSE /\ dfs'.names[f.dpath] = i
                            /\ Node(dfs', f.dpath)
                                   = [Node(dfs, tmp) EXCEPT !.flags = f.st1.flags]]_vars

\* C28: a source file with flags has been copied: its destination has the
\* content, both times and the flags of the source, and the temp file is gone
C28_Witness ==
    \E p \in SrcPaths :
        /\ KindOf(sfs, p) = "reg" /\ Node(sfs, p).flags # 0
        /\ cnt.CopiedItems >= 1
        /\ KindOf(dfs, Mirror(p)) = "reg"
        /\ ~Exists(dfs, TmpPath(Mirror(p)))
        /\ Node(dfs, Mirror(p)).data = Node(sfs, p).data
        /\ Node(dfs, Mirror(p)).flags = Node(sfs, p).flags
        /\ Node(dfs, Mirror(p)).atime = Node(sfs, p).mtime
        /\ Node(dfs, Mirror(p)).mtime = Node(sfs, p).mtime

\* C29: wherever DoCopy is about to rename the temp file over dpath, xrename
\* gives the result of the plain rename if that succeeds (no flags touched);
\* otherwise the result of the rename retried with dpath's flags cleared if
\* that succeeds; otherwise an error, with the flags of dpath set to the
\* flags given and nothing else changed.  It returns 0 exactly when one of
\* the two renames succeeded.
C29_Xrename ==
    (phase = "run" /\ Top.fn = "DoCopy" /\ Top.pc = "rename") =>
        \A inj \in BOOLEAN :
            LET src == TmpPath(Top.dpath)
                dst == Top.dpath
                flags == Top.st2.flags
                x == xrename(dfs, src, dst, flags, inj)
                first == Sys(dfs, Rename(dfs, src, dst), inj)
                cleared == Chflags(dfs, dst, 0).fs
                second == Sys(cleared, Rename(cleared, src, dst), inj)
            IN  /\ first.err = "ok" => x = first
                /\ (first.err # "ok" /\ second.err = "ok") => x = second
                /\ (first.err # "ok" /\ second.err # "ok") =>
                       /\ x.err # "ok"
                       /\ x.fs.names = dfs.names
                       /\ x.fs = Chflags(dfs, dst, flags).fs
                /\ x.err = "ok" <=> (first.err = "ok" \/ second.err = "ok")

\* C29: a file has replaced a destination that was immutable when the run
\* began: the first rename failed and the retry succeeded
C29_Witness ==
    \E p \in SrcPaths :
        /\ KindOf(sfs, p) = "reg"
        /\ Immutable(prev.dfs, Mirror(p))
        /\ Node(prev.dfs, Mirror(p)).data # Node(sfs, p).data
        /\ KindOf(dfs, Mirror(p)) = "reg"
        /\ Node(dfs, Mirror(p)).data = Node(sfs, p).data
        /\ ~Exists(dfs, TmpPath(Mirror(p)))

\* C30: wherever DoCopy is about to link dpath to the first copy of a
\* hardlinked file, xlink gives the result of the plain link if that succeeds
\* (no flags touched); otherwise it retries the link with the flags of the
\* source path cleared, sets the flags of the source path to the flags given
\* whether the retry succeeded or not, and reports the retry's error.
C30_Xlink ==
    (phase = "run" /\ Top.fn = "DoCopy" /\ Top.pc = "xlink") =>
        \A inj \in {"", "EMLINK", "EIO"} :
            LET src == hltable[hltlookup(hltable, Top.st1.ino)].name
                dst == Top.dpath
                flags == Top.st1.flags
                x == xlink(dfs, src, dst, flags, inj)
                first == IF inj # "" THEN Fail(dfs, inj) ELSE Link(dfs, src, dst)
                cleared == Chflags(dfs, src, 0).fs
                second == IF inj # "" THEN Fail(cleared, inj)
                          ELSE Link(cleared, src, dst)
            IN  /\ first.err = "ok" => x = first
                /\ first.err # "ok" =>
                       /\ x.err = second.err
                       /\ x.fs = Chflags(second.fs, src, flags).fs
                       /\ Exists(dfs, src) => Node(x.fs, src).flags = flags

\* C30: the second path of a hardlinked file that carries flags is linked to
\* the first copy: the first link failed on the flags, the retry succeeded
\* and the flags are back
C30_Witness ==
    \E p \in SrcPaths : \E q \in SrcPaths :
        /\ p # q /\ KindOf(sfs, p) = "reg" /\ sfs.names[p] = sfs.names[q]
        /\ Node(sfs, p).flags # 0
        /\ Exists(dfs, Mirror(p)) /\ Exists(dfs, Mirror(q))
        /\ dfs.names[Mirror(p)] = dfs.names[Mirror(q)]
        /\ Node(dfs, Mirror(p)).flags = Node(sfs, p).flags
        /\ cnt.CopiedItems = 2

\* C31, as stated: when the DoCopy of a symlink returns, the destination
\* umask is 0, whether the symlink was made or not.
C31_UmaskRestored ==
    [][(/\ phase = "run" /\ Top.fn = "DoCopy" /\ Top.pc = "dispatch"
        /\ Top.st1.kind = "lnk" /\ Len(stack') < Len(stack))
       => dumask' = 0]_vars

\* the destination of DoCopy frame f is a node equal to the source device
\* node in mode, rdev, uid and gid
SameNode(f) ==
    /\ f.st2Valid
    /\ f.st1.kind = f.st2.kind /\ f.st1.perm = f.st2.perm
    /\ f.st1.rdev = f.st2.rdev
    /\ f.st1.uid = f.st2.uid /\ f.st1.gid = f.st2.gid

\* C32, as stated: a DoCopy for a block or character device that returns 0
\* has left the destination untouched exactly when force is off and the
\* destination node equals the source in mode, rdev, uid and gid.
C32_DeviceRecreated ==
    [][(/\ phase = "run" /\ Top.fn = "DoCopy" /\ Top.pc \in {"check", "dispatch"}
        /\ Top.st1.kind \in {"chr", "blk"}
        /\ Len(stack') < Len(stack)
        /\ stack'[Len(stack')].r = stack[Len(stack')].r)
       => (dfs' = dfs <=> (~opt.ForceOpt /\ SameNode(Top)))]_vars

\* C33, as stated: a DoCopy for a source object that is neither a regular
\* file, a directory, a symlink nor a device changes nothing at the
\* destination, also not through the RemoveRecur it calls, and has added one
\* to the source items when it returns.
C33_OtherIgnored ==
    [][(/\ phase = "run" /\ stack[Caller].pc # "start"
        /\ stack[Caller].st1.kind \notin {"reg", "dir", "lnk", "chr", "blk"})
       => /\ dfs' = dfs
          /\ (Top.fn = "DoCopy" /\ Len(stack') < Len(stack))
                 => cnt'.SourceItems = cnt.SourceItems + 1]_vars

\* C34: in an execution where no call is made to fail, the destination
\* directory has the mode of the source directory when the DoCopy for it
\* returns, whatever mode it was created with or given for the traversal.
C34_ModeRestored ==
    [][(/\ phase = "run" /\ Top.fn = "DoCopy" /\ Top.pc = "dirfix"
        /\ faults' = 0 /\ ~Immutable(dfs, Top.dpath)
        /\ KindOf(dfs', Top.dpath) = "dir")
       => Node(dfs', Top.dpath).perm = Top.st1.perm]_vars

\* C34: a directory that the source keeps without owner write access has
\* been created and filled at the destination, or entered there, and has the
\* source's mode now that its DoCopy has returned
C34_Witness ==
    /\ phase = "returned" /\ faults = 0
    /\ \E p \in SrcPaths :
        /\ KindOf(sfs, p) = "dir" /\ BitOr(Node(sfs, p).perm, S_IRWXU) # Node(sfs, p).perm
        /\ HasChildren(sfs, p)
        /\ ~Exists(prev.dfs, Mirror(p))
        /\ KindOf(dfs, Mirror(p)) = "dir" /\ HasChildren(dfs, Mirror(p))
        /\ Node(dfs, Mirror(p)).perm = Node(sfs, p).perm
    /\ \E p \in SrcPaths :
        /\ KindOf(sfs, p) = "dir" /\ KindOf(prev.dfs, Mirror(p)) = "dir"
        /\ BitOr(Node(prev.dfs, Mirror(p)).perm, S_IRWXU) # Node(prev.dfs, Mirror(p)).perm
        /\ Node(dfs, Mirror(p)).perm = Node(sfs, p).perm

-----------------------------------------------------------------------------
(* WildCmp as a function of its two strings *)

\* longest pattern and longest name handed to WildCmp
MaxWild == 3

\* the strings of at most n characters over the alphabet
RECURSIVE Words(_, _)
Words(alphabet, n) ==
    IF n = 0 THEN {""}
    ELSE LET W == Words(alphabet, n - 1)
         IN  W \cup {c \o x : c \in alphabet, x \in W}

\* the callers hand WildCmp a line of the ignore file and a directory entry's name
InitWild ==
    /\ InitRun({w \in Worlds : w.name = "ignore"})
    /\ \E w \in Words({"*", "?", "a", "b"}, MaxWild) : \E s \in Words({"a", "b"}, MaxWild) :
        wcmp = [w |-> w, s |-> s, called |-> FALSE, res |-> 0]
    /\ alst = NoList
    /\ proc = NoProc
    /\ mplock = 0

WildCmpCall ==
    /\ ~wcmp.called
    /\ wcmp' = [wcmp EXCEPT !.called = TRUE, !.res = WildCmp(wcmp.w, wcmp.s)]
    /\ UNCHANGED <<copy, alst, proc, mplock>>

NextWild == WildCmpCall

SpecWild == InitWild /\ [][NextWild]_vars

\* C35: WildCmp(w, s) returns 0 exactly when the whole name s matches the whole
\* pattern w, where ? stands for exactly one character, * for any run of
\* characters including the empty one and any other character for itself; it
\* returns -1 otherwise, and every call returns.
C35_WildCmp ==
    wcmp.called =>
        /\ wcmp.res \in {0, -1}
        /\ wcmp.res = 0 <=> Glob(wcmp.w, wcmp.s)

\* a pattern with a * in the middle has matched a name with an empty run for it
C35_Witness ==
    /\ wcmp.called
    /\ wcmp.w = "a*b"
    /\ wcmp.s = "ab"
    /\ wcmp.res = 0

-----------------------------------------------------------------------------
(* AddList over one directory pass of DoCopy *)

\* most lines of an ignore file
MaxLines == 3

\* lines of the ignore file and names of directory entries
IgnoreLines == {"*.o", "a.o", "?"}
EntryNames == {"a", "a.o", "?"}

\* the pass starts with InitList
InitList ==
    /\ InitRun({w \in Worlds : w.name = "ignore"})
    /\ wcmp = NoWild
    /\ alst = [NoList EXCEPT !.stage = "ignore"]
    /\ proc = NoProc
    /\ mplock = 0

\* the call AddList(&list, name, n) made for a line or an entry just read
ListCall(stage, name, n) ==
    LET a == AddList(alst.list, name, n)
    IN  /\ alst' = [alst EXCEPT !.stage = stage, !.list = a.list, !.name = name,
                                !.n = n, !.val = a.val, !.old = alst.list,
                                !.lines = IF stage = "ignore" THEN @ + 1 ELSE @,
                                !.ign = IF stage = "ignore" THEN @ \cup {name} ELSE @,
                                !.src = IF stage = "source" THEN @ \cup {name} ELSE @,
                                !.dst = IF stage = "dest" THEN @ \cup {name} ELSE @]
        /\ UNCHANGED <<copy, wcmp, proc, mplock>>

\* a line of the ignore file: AddList(&list, buf, 1)
ListIgnore ==
    /\ alst.stage = "ignore"
    /\ alst.lines < MaxLines
    /\ \E buf \in IgnoreLines : ListCall("ignore", buf, TagIgnore)

\* an entry of the source directory: AddList(&list, den->d_name, 0)
ListSource ==
    /\ alst.stage \in {"ignore", "source"}
    /\ \E name \in EntryNames \ alst.src : ListCall("source", name, TagSource)

\* an entry of the destination directory: AddList(&list, den->d_name, 3)
ListDest ==
    /\ alst.stage \in {"ignore", "source", "dest"}
    /\ \E name \in EntryNames \ alst.dst : ListCall("dest", name, TagDest)

NextList == ListIgnore \/ ListSource \/ ListDest

SpecList == InitList /\ [][NextList]_vars

\* an AddList call has been made in the pass
ListCalled == alst.name # ""

\* the last call either found every matching node of the old list to carry
\* the value it returned and left the list alone, or found none, put the
\* name in front with the caller's value and returned that value
Looked(match(_)) ==
    LET hits == {k \in 1..Len(alst.old) : match(alst.old[k])}
    IN  IF hits # {}
        THEN /\ alst.list = alst.old
             /\ \A k \in hits : alst.val = alst.old[k].value
        ELSE /\ alst.val = alst.n
             /\ Len(alst.list) = Len(alst.old) + 1
             /\ Tail(alst.list) = alst.old
             /\ alst.list[1].name = alst.name
             /\ alst.list[1].value = alst.n

\* a destination lookup returns 3 exactly for a name the source listing did
\* not have and no ignore line equals or matches
DestRule ==
    alst.stage = "dest" =>
        /\ alst.n = 3
        /\ alst.val = 3 <=>
               /\ alst.name \notin alst.src
               /\ \A w \in alst.ign : w # alst.name /\ ~Glob(w, alst.name)

\* C36: AddList(list, name, n) returns the tag of the first entry that
\* matches name (an ignore pattern that wild-matches it or an entry equal to
\* it) and leaves the list unchanged, otherwise it inserts name with tag n
\* and returns n; source entries are inserted with tag 2 and destination
\* entries with tag 3, and a destination lookup returns 3 exactly when the
\* name was neither seen in the source listing nor matched by an ignore entry.
C36_AddList ==
    ListCalled =>
        LET match(node) == \/ node.name = alst.name
                           \/ node.value = 1 /\ Glob(node.name, alst.name)
        IN  /\ Looked(match)
            /\ alst.stage = "source" => alst.n = 2
            /\ DestRule

\* C36 as the code has it: an ignore pattern is wild-matched only by a lookup
\* whose own tag is not 1, and source entries are inserted with tag 0.
C36_AddListTag0 ==
    ListCalled =>
        LET match(node) == \/ node.name = alst.name
                           \/ alst.n # 1 /\ node.value = 1 /\ Glob(node.name, alst.name)
        IN  /\ Looked(match)
            /\ alst.stage = "source" => alst.n = 0
            /\ DestRule

\* with *.o ignored and a seen in the source, the destination's a.o was found
\* ignored, its a was found seen, and its ? was inserted with tag 3
C36_Witness ==
    /\ alst.stage = "dest" /\ alst.ign = {"*.o"} /\ alst.src = {"a"}
    /\ alst.dst = EntryNames
    /\ alst.name = "?" /\ alst.val = 3
    /\ Len(alst.list) = 3

\* C37: with -i and without -n, a step of RemoveRecur removes an object of the
\* destination only if the first character read at its prompt is y or Y; a
\* step that read anything else, end of input included, leaves the
\* destination and the removed-items count as they are.
C37_AskFirst ==
    [][(opt.AskConfirmation /\ ~opt.NoRemoveOpt /\ phase = "run"
        /\ Top.fn = "RemoveRecur") =>
            /\ (\E q \in DOMAIN dfs.names : Exists(dfs, q) /\ ~Exists(dfs', q))
                   => answer' \in {"y", "Y"}
            /\ answer' \notin {"y", "Y"}
                   => dfs' = dfs /\ cnt'.RemovedItems = cnt.RemovedItems]_vars

\* asked about a destination object, the user let the line end at once and
\* the object is still there, uncounted
C37_Witness ==
    /\ opt.AskConfirmation /\ ~opt.NoRemoveOpt
    /\ answer = "\n"
    /\ cnt.RemovedItems = 0
    /\ opt.world = "stale" /\ run = 1
    /\ Exists(dfs, <<"D", "x">>) /\ Exists(dfs, <<"D", "y", "z">>)

\* the running DoCopy has counted a sighting of inode i (hln->nlinked++) and
\* has not yet made the link or dropped the entry
Linking(i) == phase = "run" /\ Top.fn = "DoCopy" /\ Top.pc = "xlink" /\ Top.st1.ino = i

\* no two entries of hltable are for the same source inode
OnePerInode ==
    \A j, k \in 1..Len(hltable) : hltable[j].ino = hltable[k].ino => j = k

\* C38: in every reachable state hltable holds at most one entry per source
\* inode, and every entry's sighting count is at least 1 and strictly less
\* than the st_nlink of its source inode.
C38_TableInvariant ==
    /\ OnePerInode
    /\ \A k \in 1..Len(hltable) :
           /\ hltable[k].nlinked >= 1
           /\ hltable[k].nlinked < SrcLinkCount(hltable[k].ino)

\* C38 as the code has it: one entry per source inode, every count at least 1
\* and at most st_nlink, and equal to st_nlink only while the DoCopy call that
\* counted the last name has not yet linked it.
C38_TableBounds ==
    /\ OnePerInode
    /\ \A k \in 1..Len(hltable) :
           /\ hltable[k].nlinked >= 1
           /\ hltable[k].nlinked <= SrcLinkCount(hltable[k].ino)
           /\ hltable[k].nlinked = SrcLinkCount(hltable[k].ino)
                  => Linking(hltable[k].ino)

\* the second of three names of an inode has been linked and the call has
\* returned: the entry stays, with count 2
C38_Witness ==
    /\ \E k \in 1..Len(hltable) :
           /\ hltable[k].nlinked = 2
           /\ SrcLinkCount(hltable[k].ino) = 3
           /\ ~Linking(hltable[k].ino)
    /\ faults = 0

\* the destination paths that mirror the other entries of the source
\* directory that holds frame f's entry
SiblingMirrors(f) ==
    {Child(Parent(f.dpath), n) :
        n \in Entries(sfs, Parent(f.spath)) \ {BaseName(f.spath)}}

\* path q is the same object, with the same content and attributes, before
\* and after the step
Untouched(q) ==
    /\ Exists(dfs', q) <=> Exists(dfs, q)
    /\ Exists(dfs, q) => Node(dfs', q) = Node(dfs, q)

\* C39: no step of the call DoCopy(src/p, dst/p) for a source entry p that is
\* not a directory creates, modifies or removes the destination path that
\* mirrors another entry of the same source directory; the handling of p's
\* temporary file does not destroy a sibling's mirrored file.
C39_SiblingsKept ==
    [][(/\ phase = "run" /\ Top.fn = "DoCopy" /\ Len(Top.spath) > 1
        /\ KindOf(sfs, Top.spath) \notin {"dir", "none"}) =>
            \A q \in SiblingMirrors(Top) : Untouched(q)]_vars

-----------------------------------------------------------------------------
(* kern_exit.c: killalllwps, killlwps, exit1, lwp_exit under the MP lock *)

\* most lwps of the process
MaxLwps == 3

Lwps == 1..MaxLwps

\* errno of the loser of the race
EALREADY == 37

\* an lwp in user mode; error -1: no killalllwps call has returned
UserLwp == [pc |-> "user", LWP_WEXIT |-> FALSE, forexec |-> 0, error |-> -1,
            sigkill |-> FALSE]

\* a process of one to MaxLwps lwps, all in user mode
InitExit ==
    /\ InitRun({w \in Worlds : w.name = "ignore"})
    /\ wcmp = NoWild
    /\ alst = NoList
    /\ mplock = 0
    /\ \E n \in Lwps :
        proc = [P_WEXIT |-> FALSE, p_nthreads |-> n,
                lwp |-> [t \in Lwps |-> IF t <= n THEN UserLwp
                                        ELSE [UserLwp EXCEPT !.pc = "none"]]]

\* get_mplock(): the caller runs on when no other lwp holds the MP lock (an
\* lwp that blocks in tsleep gives it up and takes it again when it wakes)
get_mplock(t) == mplock = 0

At1(t, pc) == proc.lwp[t].pc = pc

\* lwp_exit(masterexit) of lwp t in process state p: LWP_WEXIT is set,
\* p_nthreads is decremented and the thread never runs again
lwp_exit(p, t, masterexit) ==
    [p EXCEPT !.p_nthreads = @ - 1,
              !.lwp[t].LWP_WEXIT = TRUE,
              !.lwp[t].pc = IF masterexit = 1 THEN "master" ELSE "dead"]

\* sys_exit, sys_extexit(EXTEXIT_PROC) or a fatal signal: get_mplock() and
\* exit1() up to its call killalllwps(0)
SysExit(t) ==
    /\ At1(t, "user")
    /\ get_mplock(t)
    /\ mplock' = t
    /\ proc' = [proc EXCEPT !.lwp[t].pc = "test", !.lwp[t].forexec = 0,
                            !.lwp[t].error = -1]
    /\ UNCHANGED <<copy, wcmp, alst>>

\* sys_extexit(EXTEXIT_LWP): a plain lwp_exit(0) unless this is the last lwp.
\* which falls through to exit1()
SysExtexitLwp(t) ==
    /\ At1(t, "user")
    /\ get_mplock(t)
    /\ IF proc.p_nthreads > 1
       THEN /\ proc' = lwp_exit(proc, t, 0)
            /\ mplock' = 0
       ELSE /\ proc' = [proc EXCEPT !.lwp[t].pc = "test", !.lwp[t].forexec = 0,
                                    !.lwp[t].error = -1]
            /\ mplock' = t
    /\ UNCHANGED <<copy, wcmp, alst>>

\* exec: the call killalllwps(1); the lwp may have been killed by another
\* while its exec was on the way to the call
Exec(t) ==
    /\ At1(t, "user")
    /\ get_mplock(t)
    /\ mplock' = t
    /\ proc' = [proc EXCEPT !.lwp[t].pc = "test", !.lwp[t].forexec = 1,
                            !.lwp[t].error = -1]
    /\ UNCHANGED <<copy, wcmp, alst>>

\* killalllwps: if (p->p_flag & P_WEXIT) return (EALREADY);
KillTest(t) ==
    /\ At1(t, "test")
    /\ proc' = IF proc.P_WEXIT
               THEN [proc EXCEPT !.lwp[t].pc = "ret", !.lwp[t].error = EALREADY]
               ELSE [proc EXCEPT !.lwp[t].pc = "set"]
    /\ UNCHANGED <<copy, wcmp, alst, mplock>>

\* killalllwps: p->p_flag |= P_WEXIT;
KillSet(t) ==
    /\ At1(t, "set")
    /\ proc' = [proc EXCEPT !.P_WEXIT = TRUE, !.lwp[t].pc = "mark"]
    /\ UNCHANGED <<copy, wcmp, alst, mplock>>

\* killalllwps: lp->lwp_flag |= LWP_WEXIT; if (p->p_nthreads > 1) killlwps(lp);
KillMark(t) ==
    /\ At1(t, "mark")
    /\ proc' = [proc EXCEPT !.lwp[t].LWP_WEXIT = TRUE,
                            !.lwp[t].pc = IF proc.p_nthreads > 1 THEN "kill" ELSE "clean"]
    /\ UNCHANGED <<copy, wcmp, alst, mplock>>

\* killlwps: SIGKILL and LWP_WEXIT for every lwp that does not have LWP_WEXIT
KillLwps(t) ==
    /\ At1(t, "kill")
    /\ proc' = [proc EXCEPT !.lwp = [u \in Lwps |->
                    IF u = t THEN [@[u] EXCEPT !.pc = "wait"]
                    ELSE IF @[u].pc \notin {"none", "dead", "master"} /\ ~@[u].LWP_WEXIT
                    THEN [@[u] EXCEPT !.sigkill = TRUE, !.LWP_WEXIT = TRUE]
                    ELSE @[u]]]
    /\ UNCHANGED <<copy, wcmp, alst, mplock>>

\* killlwps: while (p->p_nthreads > 1) tsleep(&p->p_nthreads, ...): the
\* sleeper gives the MP lock up
KillWait(t) ==
    /\ At1(t, "wait")
    /\ IF proc.p_nthreads > 1
       THEN /\ proc' = [proc EXCEPT !.lwp[t].pc = "sleep"]
            /\ mplock' = 0
       ELSE /\ proc' = [proc EXCEPT !.lwp[t].pc = "clean"]
            /\ mplock' = mplock
    /\ UNCHANGED <<copy, wcmp, alst>>

\* tsleep returns: the lwp has the MP lock again and tests p_nthreads again
KillWake(t) ==
    /\ At1(t, "sleep")
    /\ get_mplock(t)
    /\ mplock' = t
    /\ proc' = [proc EXCEPT !.lwp[t].pc = "wait"]
    /\ UNCHANGED <<copy, wcmp, alst>>

\* variant of KillClean: forexec is not looked at
KillCleanKeep(t) ==
    /\ At1(t, "clean")
    /\ proc' = [proc EXCEPT !.lwp[t].error = 0, !.lwp[t].pc = "ret"]
    /\ UNCHANGED <<copy, wcmp, alst, mplock>>

\* killalllwps: with forexec both flags are cleared; return(0)
KillClean(t) ==
    /\ At1(t, "clean")
    /\ proc' = IF proc.lwp[t].forexec # 0
               THEN [proc EXCEPT !.P_WEXIT = FALSE, !.lwp[t].LWP_WEXIT = FALSE,
                                 !.lwp[t].error = 0, !.lwp[t].pc = "ret"]
               ELSE [proc EXCEPT !.lwp[t].error = 0, !.lwp[t].pc = "ret"]
    /\ UNCHANGED <<copy, wcmp, alst, mplock>>

\* exit1 after error = killalllwps(0): lwp_exit(0) on an error, else the
\* master exit, which ends in lwp_exit(1)
ExitReturn(t) ==
    /\ At1(t, "ret")
    /\ proc.lwp[t].forexec = 0
    /\ proc' = lwp_exit(proc, t, IF proc.lwp[t].error # 0 THEN 0 ELSE 1)
    /\ mplock' = 0
    /\ UNCHANGED <<copy, wcmp, alst>>

\* the caller of killalllwps(1) goes on and returns to user mode
ExecReturn(t) ==
    /\ At1(t, "ret")
    /\ proc.lwp[t].forexec = 1
    /\ proc' = [proc EXCEPT !.lwp[t].pc = "user"]
    /\ mplock' = 0
    /\ UNCHANGED <<copy, wcmp, alst>>

NextExit ==
    \/ \E t \in Lwps : SysExit(t)
    \/ \E t \in Lwps : SysExtexitLwp(t)
    \/ \E t \in Lwps : Exec(t)
    \/ \E t \in Lwps : KillTest(t)
    \/ \E t \in Lwps : KillSet(t)
    \/ \E t \in Lwps : KillMark(t)
    \/ \E t \in Lwps : KillLwps(t)
    \/ \E t \in Lwps : KillWait(t)
    \/ \E t \in Lwps : KillWake(t)
    \/ \E t \in Lwps : KillClean(t)
    \/ \E t \in Lwps : ExitReturn(t)
    \/ \E t \in Lwps : ExecReturn(t)

SpecExit == InitExit /\ [][NextExit]_vars

\* lwp t has come back from killalllwps(forexec) with the value error
Back(t, forexec, error) ==
    /\ proc.lwp[t].pc \in {"ret", "dead", "master"}
    /\ proc.lwp[t].forexec = forexec
    /\ proc.lwp[t].error = error

\* at most one lwp gets 0 from killalllwps(0), and it alone does the master
\* exit; an lwp that gets an error got EALREADY with P_WEXIT set and leaves
\* by lwp_exit(0)
OneMaster ==
    /\ Cardinality({t \in Lwps : Back(t, 0, 0)}) <= 1
    /\ \A t \in Lwps :
        /\ At1(t, "master") => Back(t, 0, 0)
        /\ (At1(t, "ret") /\ proc.lwp[t].error # 0) =>
               proc.lwp[t].error = EALREADY /\ proc.P_WEXIT
        /\ Back(t, 0, EALREADY) => ~At1(t, "master")

\* C40: of the lwps of a process that call killalllwps(0), at most one gets 0
\* and does the master exit; every other caller finds P_WEXIT set, gets
\* EALREADY and exits as an lwp only. When killalllwps(1) has returned,
\* P_WEXIT and the caller's LWP_WEXIT are clear.
C40_Interlock ==
    /\ OneMaster
    /\ \A t \in Lwps :
        (At1(t, "ret") /\ proc.lwp[t].forexec = 1) =>
            ~proc.P_WEXIT /\ ~proc.lwp[t].LWP_WEXIT

\* C40 as the code has it: the flags are clear when killalllwps(1) has
\* returned 0; a caller that lost the race gets EALREADY and finds P_WEXIT
\* as the winner has set it.
C40_InterlockWon ==
    /\ OneMaster
    /\ \A t \in Lwps :
        (At1(t, "ret") /\ proc.lwp[t].forexec = 1 /\ proc.lwp[t].error = 0) =>
            ~proc.P_WEXIT /\ ~proc.lwp[t].LWP_WEXIT

\* three lwps called killalllwps(0): one did the master exit, the other two
\* got EALREADY and left by lwp_exit(0)
C40_Witness ==
    /\ \E t \in Lwps : At1(t, "master") /\ Back(t, 0, 0)
    /\ Cardinality({t \in Lwps : At1(t, "dead") /\ Back(t, 0, EALREADY)}) = 2

====
